---- MODULE Spec2Model ----
(***************************************************************************)
(* The DLA layout type system graph of revng-c (dla::LayoutTypeSystem,     *)
(* lib/Decompiler/DLATypeSystem.h): nodes, interned link tags, mirrored    *)
(* successor/predecessor sets, the key maps, and the operations on them.   *)
(***************************************************************************)
EXTENDS Integers, Sequences, FiniteSets, TLC

(***************************************************************************)
(* Bounds of the model                                                     *)
(***************************************************************************)
\* node creations allowed in one run (NID never goes above it)
MaxNID == 3
\* links (directed edges) the graph may hold before a new insertion starts
MaxEdges == 3
\* access records the clients may write into the nodes
MaxAccesses == 1

\* the most instructions ahead of the one under study in a function
MaxPrefix == 1
\* the most operands of a call
MaxOperands == 2
\* the most instructions of a function of several basic blocks
MaxBody == 3

\* the keys (LayoutTypePtr values) the clients look up
Keys == {"k1", "k2", "k3"}
\* what the clients write into a node: an llvm::Use handle and the size seen
\* at that use
Writes == {<<"u1", 4>>, <<"u2", 8>>}

(***************************************************************************)
(* Values                                                                  *)
(***************************************************************************)
\* the null LayoutTypeSystemNode pointer
NullNode == -1
\* the null TypeLinkTag pointer
NullTag == 0

\* enum TypeLinkTag::LinkKind, in declaration order
LK_Inheritance == 0
LK_Equality == 1
LK_Instance == 2
LK_All == 3

\* OffsetExpression(Off): no strides, no trip counts.  A trip count is a
\* std::optional<int64_t>: <<>> is nullopt, <<v>> holds v.
OffsetExpression(Off) == [Offset |-> Off, Strides |-> <<>>, TripCounts |-> <<>>]

\* the offset expression of the clients that pass one only
OEs == { OffsetExpression(0) }

\* the offset expressions of the clients that pass several: an array of
\* stride 4 of unknown trip count, and one of trip count 2
OEsTags ==
  { [Offset |-> 0, Strides |-> <<4>>, TripCounts |-> << <<>> >>],
    [Offset |-> 0, Strides |-> <<4>>, TripCounts |-> << <<2>> >>] }

TypeLinkTag(K, O) == [Kind |-> K, OE |-> O]
equalityTag == TypeLinkTag(LK_Equality, OffsetExpression(0))
inheritanceTag == TypeLinkTag(LK_Inheritance, OffsetExpression(0))
instanceTag(O) == TypeLinkTag(LK_Instance, O)

(***************************************************************************)
(* Orderings                                                               *)
(***************************************************************************)
\* a <=> b on integers: -1, 0, 1
IntCompare(a, b) == IF a < b THEN -1 ELSE IF a > b THEN 1 ELSE 0

\* std::optional<int64_t> operator<: nullopt is below every value
OptionalLess(a, b) ==
  IF Len(b) = 0 THEN FALSE
  ELSE IF Len(a) = 0 THEN TRUE
  ELSE a[1] < b[1]

\* SmallVector<int64_t> operator<: std::lexicographical_compare
RECURSIVE StridesLess(_, _)
StridesLess(s, t) ==
  IF Len(t) = 0 THEN FALSE
  ELSE IF Len(s) = 0 THEN TRUE
  ELSE IF s[1] < t[1] THEN TRUE
  ELSE IF t[1] < s[1] THEN FALSE
  ELSE StridesLess(Tail(s), Tail(t))

\* SmallVector<std::optional<int64_t>> operator<
RECURSIVE TripCountsLess(_, _)
TripCountsLess(s, t) ==
  IF Len(t) = 0 THEN FALSE
  ELSE IF Len(s) = 0 THEN TRUE
  ELSE IF OptionalLess(s[1], t[1]) THEN TRUE
  ELSE IF OptionalLess(t[1], s[1]) THEN FALSE
  ELSE TripCountsLess(Tail(s), Tail(t))

\* OffsetExpression::operator<=>
OffsetExpressionCompareNoTripCounts(A, B) ==
  IF IntCompare(A.Offset, B.Offset) # 0 THEN IntCompare(A.Offset, B.Offset)
  ELSE IF StridesLess(A.Strides, B.Strides) THEN -1
  ELSE IF StridesLess(B.Strides, A.Strides) THEN 1
  ELSE 0

OffsetExpressionCompare(A, B) ==
  IF IntCompare(A.Offset, B.Offset) # 0 THEN IntCompare(A.Offset, B.Offset)
  ELSE IF StridesLess(A.Strides, B.Strides) THEN -1
  ELSE IF StridesLess(B.Strides, A.Strides) THEN 1
  ELSE IF TripCountsLess(A.TripCounts, B.TripCounts) THEN -1
  ELSE IF TripCountsLess(B.TripCounts, A.TripCounts) THEN 1
  ELSE 0

\* TypeLinkTag::operator<=>
TypeLinkTagCompare(A, B) ==
  IF IntCompare(A.Kind, B.Kind) # 0 THEN IntCompare(A.Kind, B.Kind)
  ELSE OffsetExpressionCompare(A.OE, B.OE)

\* TypeLinkTag::operator<
TypeLinkTagLess(A, B) == TypeLinkTagCompare(A, B) < 0

(***************************************************************************)
(* State                                                                   *)
(***************************************************************************)
VARIABLES
  NID,                  \* the next node id
  Layouts,              \* the nodes the graph owns (a node is named by its ID)
  Successors,           \* node -> set of <<neighbor, tag handle>>
  Predecessors,         \* node -> set of <<neighbor, tag handle>>
  L,                    \* node -> [Accesses, Size]
  TypePtrToLayoutMap,   \* key -> node
  LayoutToTypePtrsMap,  \* node -> set of keys
  LinkTags,             \* the interned tags; a handle is a position in it
  aborted,              \* a revng_assert failed
  pass,                 \* the phase of the equality normalization, and the keys it started from
  F,                    \* StmtBuilder: the instructions of the function, in reverse-postorder
  pc,                   \* StmtBuilder::createAST: the position of the next instruction
  InstrStmts,           \* StmtBuilder: instruction -> statement
  VarDecls,             \* StmtBuilder: instruction -> variable declaration
  AllocaDecls,          \* StmtBuilder: alloca -> array declaration
  BBLabelDecls,         \* StmtBuilder: first instruction of a block -> label declaration
  NVar,                 \* StmtBuilder: the next K of var_K
  BBId                  \* StmtBuilder::createAST: the next N of bb_N

\* the members of the statement builder
builderVars == <<F, pc, InstrStmts, VarDecls, AllocaDecls, BBLabelDecls, NVar, BBId>>

\* the members of the type-system graph
graphVars == <<NID, Layouts, Successors, Predecessors, L, TypePtrToLayoutMap,
               LayoutToTypePtrsMap, LinkTags, pass>>

vars == <<NID, Layouts, Successors, Predecessors, L, TypePtrToLayoutMap,
          LayoutToTypePtrsMap, LinkTags, aborted, pass, builderVars>>

\* the shape of the state: the members of LayoutTypeSystem and the fields of
\* the nodes it owns
TypeOK ==
  /\ NID \in Nat
  /\ Layouts \subseteq 0 .. (NID - 1)
  /\ DOMAIN Successors = Layouts /\ DOMAIN Predecessors = Layouts
  /\ DOMAIN L = Layouts
  /\ \A n \in Layouts : L[n].Accesses \subseteq {w[1] : w \in Writes} /\ L[n].Size \in Nat
  /\ DOMAIN TypePtrToLayoutMap \subseteq Keys
  /\ DOMAIN LayoutToTypePtrsMap \subseteq Layouts
  /\ \A n \in DOMAIN LayoutToTypePtrsMap : LayoutToTypePtrsMap[n] \subseteq Keys
  /\ \A h \in DOMAIN LinkTags :
       LinkTags[h].Kind \in {LK_Inheritance, LK_Equality, LK_Instance}
  /\ aborted \in BOOLEAN
  /\ pass.Phase \in {"build", "normalize", "done"}
  /\ pass.Keys \subseteq Keys
  /\ pass.Linked \subseteq pass.Keys \X pass.Keys

\* the links and tags as one value, for the operations that only touch them
Graph == [Succ |-> Successors, Pred |-> Predecessors, Tags |-> LinkTags]

(***************************************************************************)
(* Link insertion                                                          *)
(***************************************************************************)
\* std::set<TypeLinkTag>::insert: the element equivalent to Tag under
\* operator< if there is one, a new element otherwise
LinkTagsInsertAlways(Tags, Tag) ==
  [Tags |-> Append(Tags, Tag), It |-> Len(Tags) + 1, Inserted |-> TRUE]

LinkTagsInsert(Tags, Tag) ==
  IF \E i \in DOMAIN Tags :
       ~TypeLinkTagLess(Tags[i], Tag) /\ ~TypeLinkTagLess(Tag, Tags[i])
  THEN [Tags |-> Tags,
        It |-> CHOOSE i \in DOMAIN Tags :
                 ~TypeLinkTagLess(Tags[i], Tag) /\ ~TypeLinkTagLess(Tag, Tags[i]),
        Inserted |-> FALSE]
  ELSE [Tags |-> Append(Tags, Tag), It |-> Len(Tags) + 1, Inserted |-> TRUE]

\* LayoutTypeSystem::addLink on the links G: the new links and the pair
\* (tag handle, New) it returns
addLinkNoPred(G, Src, Tgt, Tag) ==
  IF Src = NullNode \/ Tgt = NullNode \/ Src = Tgt
  THEN [G |-> G, T |-> NullTag, New |-> FALSE]
  ELSE LET Ins == LinkTagsInsert(G.Tags, Tag)
           T == Ins.It
       IN  [G |-> [Succ |-> [G.Succ EXCEPT ![Src] = @ \cup {<<Tgt, T>>}],
                   Pred |-> G.Pred,
                   Tags |-> Ins.Tags],
            T |-> T,
            New |-> <<Tgt, T>> \notin G.Succ[Src]]

addLinkSelf(G, Src, Tgt, Tag) ==
  IF Src = NullNode \/ Tgt = NullNode
  THEN [G |-> G, T |-> NullTag, New |-> FALSE]
  ELSE LET Ins == LinkTagsInsert(G.Tags, Tag)
           T == Ins.It
           NewSucc == <<Tgt, T>> \notin G.Succ[Src]
           NewPred == <<Src, T>> \notin G.Pred[Tgt]
       IN  [G |-> [Succ |-> [G.Succ EXCEPT ![Src] = @ \cup {<<Tgt, T>>}],
                   Pred |-> [[G.Pred EXCEPT ![Tgt] = @ \cup {<<Src, T>>}]
                               EXCEPT ![Src] = @],
                   Tags |-> Ins.Tags],
            T |-> T,
            New |-> NewSucc \/ NewPred]

addLinkNoSucc(G, Src, Tgt, Tag) ==
  IF Src = NullNode \/ Tgt = NullNode \/ Src = Tgt
  THEN [G |-> G, T |-> NullTag, New |-> FALSE]
  ELSE LET Ins == LinkTagsInsert(G.Tags, Tag)
           T == Ins.It
       IN  [G |-> [Succ |-> G.Succ,
                   Pred |-> [G.Pred EXCEPT ![Tgt] = @ \cup {<<Src, T>>}],
                   Tags |-> Ins.Tags],
            T |-> T,
            New |-> <<Src, T>> \notin G.Pred[Tgt]]

addLinkAlwaysNew(G, Src, Tgt, Tag) ==
  IF Src = NullNode \/ Tgt = NullNode \/ Src = Tgt
  THEN [G |-> G, T |-> NullTag, New |-> FALSE]
  ELSE LET Ins == LinkTagsInsert(G.Tags, Tag)
           T == Ins.It
       IN  [G |-> [Succ |-> [G.Succ EXCEPT ![Src] = @ \cup {<<Tgt, T>>}],
                   Pred |-> [G.Pred EXCEPT ![Tgt] = @ \cup {<<Src, T>>}],
                   Tags |-> Ins.Tags],
            T |-> T,
            New |-> TRUE]

addLink(G, Src, Tgt, Tag) ==
  IF Src = NullNode \/ Tgt = NullNode \/ Src = Tgt
  THEN [G |-> G, T |-> NullTag, New |-> FALSE]
  ELSE LET Ins == LinkTagsInsert(G.Tags, Tag)
           T == Ins.It
           NewSucc == <<Tgt, T>> \notin G.Succ[Src]
           NewPred == <<Src, T>> \notin G.Pred[Tgt]
       IN  [G |-> [Succ |-> [G.Succ EXCEPT ![Src] = @ \cup {<<Tgt, T>>}],
                   Pred |-> [G.Pred EXCEPT ![Tgt] = @ \cup {<<Src, T>>}],
                   Tags |-> Ins.Tags],
            T |-> T,
            New |-> NewSucc \/ NewPred]

\* LayoutTypeSystem::addEqualityLink: both directions; InSync is the
\* revng_assert(ForwardLinkTag == BackwardLinkTag)
addEqualityLinkForward(G, Src, Tgt) ==
  LET Forward == addLink(G, Src, Tgt, equalityTag)
  IN  [G |-> Forward.G, T |-> Forward.T, New |-> Forward.New, InSync |-> TRUE]

addEqualityLink(G, Src, Tgt) ==
  LET Forward == addLink(G, Src, Tgt, equalityTag)
      Backward == addLink(Forward.G, Tgt, Src, equalityTag)
  IN  [G |-> Backward.G, T |-> Forward.T, New |-> Forward.New,
       InSync |-> Forward.T = Backward.T /\ Forward.New = Backward.New]

\* LayoutTypeSystem::addInheritanceLink
addInheritanceLink(G, Src, Tgt) == addLink(G, Src, Tgt, inheritanceTag)

\* LayoutTypeSystem::addInstanceLink
addInstanceLink(G, Src, Tgt, OE) == addLink(G, Src, Tgt, instanceTag(OE))

\* the number of links in the graph
RECURSIVE SumCard(_, _)
SumCard(Sets, D) ==
  IF D = {} THEN 0
  ELSE LET n == CHOOSE x \in D : TRUE
       IN  Cardinality(Sets[n]) + SumCard(Sets, D \ {n})

EdgeCount == SumCard(Successors, Layouts)

\* the node arguments a client can pass: a node of the graph, or null
NodeArgs == Layouts \cup {NullNode}

(***************************************************************************)
(* Actions                                                                 *)
(***************************************************************************)
Init ==
  /\ NID = 0
  /\ Layouts = {}
  /\ Successors = << >>
  /\ Predecessors = << >>
  /\ L = << >>
  /\ TypePtrToLayoutMap = << >>
  /\ LayoutToTypePtrsMap = << >>
  /\ LinkTags = << >>
  /\ aborted = FALSE
  /\ pass = [Phase |-> "build", Keys |-> {}, Linked |-> {}]
  /\ F = << >> /\ pc = 1
  /\ InstrStmts = << >> /\ VarDecls = << >>
  /\ AllocaDecls = << >> /\ BBLabelDecls = << >>
  /\ NVar = 0 /\ BBId = 0

SetGraph(G) ==
  /\ Successors' = G.Succ
  /\ Predecessors' = G.Pred
  /\ LinkTags' = G.Tags

AddEquality(Src, Tgt) ==
  /\ ~aborted
  /\ EdgeCount < MaxEdges
  /\ LET R == addEqualityLink(Graph, Src, Tgt)
     IN  /\ SetGraph(R.G)
         /\ aborted' = ~R.InSync
  /\ UNCHANGED <<pass, builderVars>>
  /\ UNCHANGED <<NID, Layouts, L, TypePtrToLayoutMap, LayoutToTypePtrsMap>>

AddInheritance(Src, Tgt) ==
  /\ ~aborted
  /\ EdgeCount < MaxEdges
  /\ LET R == addInheritanceLink(Graph, Src, Tgt)
     IN  /\ SetGraph(R.G)
  /\ UNCHANGED <<NID, Layouts, L, TypePtrToLayoutMap, LayoutToTypePtrsMap, aborted, pass, builderVars>>

AddInstance(Src, Tgt, OE) ==
  /\ ~aborted
  /\ EdgeCount < MaxEdges
  /\ LET R == addInstanceLink(Graph, Src, Tgt, OE)
     IN  /\ SetGraph(R.G)
  /\ UNCHANGED <<NID, Layouts, L, TypePtrToLayoutMap, LayoutToTypePtrsMap, aborted, pass, builderVars>>

(***************************************************************************)
(* Nodes and keys                                                          *)
(***************************************************************************)
\* f without the entry of x
Erase(f, x) == [y \in DOMAIN f \ {x} |-> f[y]]

\* LayoutTypeSystem::getLayoutType: lookup without creation; the node of Key,
\* or null
getLayoutType(Key) ==
  IF Key \in DOMAIN TypePtrToLayoutMap THEN TypePtrToLayoutMap[Key] ELSE NullNode

\* LayoutTypeSystem::getOrCreateLayoutType: the pair (node, created) it
\* returns; a created node takes the next id
getOrCreateLayoutTypeStale(Key) ==
  IF Key \in DOMAIN TypePtrToLayoutMap /\ TypePtrToLayoutMap[Key] \in Layouts
  THEN [Node |-> TypePtrToLayoutMap[Key], Created |-> FALSE]
  ELSE [Node |-> IF NID = 0 THEN 0 ELSE NID - 1, Created |-> TRUE]

getOrCreateLayoutType(Key) ==
  IF Key \in DOMAIN TypePtrToLayoutMap
  THEN [Node |-> TypePtrToLayoutMap[Key], Created |-> FALSE]
  ELSE [Node |-> NID, Created |-> TRUE]

GetOrCreate(Key) ==
  /\ ~aborted
  /\ LET R == getOrCreateLayoutType(Key)
         N == R.Node
     IN  IF R.Created
         THEN /\ NID < MaxNID
              /\ NID' = NID + 1
              /\ Layouts' = Layouts \cup {N}
              /\ Successors' = [n \in Layouts \cup {N} |->
                                  IF n = N THEN {} ELSE Successors[n]]
              /\ Predecessors' = [n \in Layouts \cup {N} |->
                                    IF n = N THEN {} ELSE Predecessors[n]]
              /\ L' = [n \in Layouts \cup {N} |->
                         IF n = N THEN [Accesses |-> {}, Size |-> 0] ELSE L[n]]
              /\ TypePtrToLayoutMap' =
                   [k \in DOMAIN TypePtrToLayoutMap \cup {Key} |->
                      IF k = Key THEN N ELSE TypePtrToLayoutMap[k]]
              /\ LayoutToTypePtrsMap' =
                   [n \in DOMAIN LayoutToTypePtrsMap \cup {N} |->
                      IF n = N THEN {Key} ELSE LayoutToTypePtrsMap[n]]
         ELSE UNCHANGED <<NID, Layouts, Successors, Predecessors, L,
                          TypePtrToLayoutMap, LayoutToTypePtrsMap>>
  /\ UNCHANGED <<LinkTags, aborted, pass, builderVars>>

Get(Key) ==
  /\ ~aborted
  /\ getLayoutType(Key) \in Layouts \cup {NullNode}
  /\ UNCHANGED vars

\* a client writes the public LayoutType fields of node N
SetLayout(N, U, S) ==
  /\ ~aborted
  /\ SumCard([n \in Layouts |-> L[n].Accesses], Layouts) < MaxAccesses
  /\ L' = [L EXCEPT ![N] = [Accesses |-> @.Accesses \cup {U}, Size |-> S]]
  /\ UNCHANGED <<NID, Layouts, Successors, Predecessors, TypePtrToLayoutMap,
                 LayoutToTypePtrsMap, LinkTags, aborted, pass, builderVars>>

(***************************************************************************)
(* Merge and removal                                                       *)
(***************************************************************************)
\* the links of From rewritten to Into: every neighbor of From forgets From,
\* and every link of From that is not a link with Into becomes a link of Into
\* with the same tag handle (a set holds no duplicate)
TransplantLinksForget(Succ, Pred, From, Into) ==
  [Succ |-> [n \in DOMAIN Succ \ {From} |-> {e \in Succ[n] : e[1] # From}],
   Pred |-> [n \in DOMAIN Pred \ {From} |-> {e \in Pred[n] : e[1] # From}]]

TransplantLinks(Succ, Pred, From, Into) ==
  LET Out == {e \in Succ[From] : e[1] # Into}
      In == {e \in Pred[From] : e[1] # Into}
      S1 == [n \in DOMAIN Succ \ {From} |->
               LET Kept == {e \in Succ[n] : e[1] # From}
                   Moved == {<<Into, e[2]>> : e \in {x \in Succ[n] : x[1] = From}}
               IN  IF n = Into THEN Kept \cup Out
                   ELSE IF \E e \in In : e[1] = n
                        THEN Kept \cup {x \in Moved : <<n, x[2]>> \in In}
                        ELSE Kept]
      P1 == [n \in DOMAIN Pred \ {From} |->
               LET Kept == {e \in Pred[n] : e[1] # From}
                   Moved == {<<Into, e[2]>> : e \in {x \in Pred[n] : x[1] = From}}
               IN  IF n = Into THEN Kept \cup In
                   ELSE IF \E e \in Out : e[1] = n
                        THEN Kept \cup {x \in Moved : <<n, x[2]>> \in Out}
                        ELSE Kept]
  IN  [Succ |-> S1, Pred |-> P1]

\* LayoutTypeSystem::mergeNodes(From, Into)
Merge(From, Into) ==
  /\ ~aborted
  /\ From \in Layouts /\ Into \in Layouts /\ From # Into
  /\ LET Moved == LayoutToTypePtrsMap[From]
         G == TransplantLinks(Successors, Predecessors, From, Into)
     IN  /\ TypePtrToLayoutMap' =
              [k \in DOMAIN TypePtrToLayoutMap |->
                 IF k \in Moved THEN Into ELSE TypePtrToLayoutMap[k]]
         /\ LayoutToTypePtrsMap' =
              [n \in DOMAIN LayoutToTypePtrsMap \ {From} |->
                 IF n = Into THEN LayoutToTypePtrsMap[n] \cup Moved
                 ELSE LayoutToTypePtrsMap[n]]
         /\ Successors' = G.Succ
         /\ Predecessors' = G.Pred
         /\ L' = [n \in Layouts \ {From} |->
                    IF n = Into
                    THEN [Accesses |-> L[Into].Accesses \cup L[From].Accesses,
                          Size |-> IF L[From].Size > L[Into].Size
                                   THEN L[From].Size ELSE L[Into].Size]
                    ELSE L[n]]
         /\ Layouts' = Layouts \ {From}
  /\ UNCHANGED <<NID, LinkTags, aborted, pass, builderVars>>

\* the links left when N goes: the neighbors N names forget N
DropLinks(Succ, Pred, N) ==
  [Succ |-> [n \in DOMAIN Succ \ {N} |->
               IF \E e \in Pred[N] : e[1] = n
               THEN {e \in Succ[n] : ~(e[1] = N /\ <<n, e[2]>> \in Pred[N])}
               ELSE Succ[n]],
   Pred |-> [n \in DOMAIN Pred \ {N} |->
               IF \E e \in Succ[N] : e[1] = n
               THEN {e \in Pred[n] : ~(e[1] = N /\ <<n, e[2]>> \in Succ[N])}
               ELSE Pred[n]]]

\* LayoutTypeSystem::removeNode(N)
Remove(N) ==
  /\ ~aborted
  /\ N \in Layouts
  /\ LET G == DropLinks(Successors, Predecessors, N)
     IN  /\ Successors' = G.Succ
         /\ Predecessors' = G.Pred
  /\ TypePtrToLayoutMap' =
       [k \in DOMAIN TypePtrToLayoutMap \ LayoutToTypePtrsMap[N] |->
          TypePtrToLayoutMap[k]]
  /\ LayoutToTypePtrsMap' = Erase(LayoutToTypePtrsMap, N)
  /\ L' = Erase(L, N)
  /\ Layouts' = Layouts \ {N}
  /\ UNCHANGED <<NID, LinkTags, aborted, pass, builderVars>>

(***************************************************************************)
(* Checks                                                                  *)
(***************************************************************************)
\* hasLinkKind<K>: the link e carries a tag of kind K
hasLinkKindAny(K, e) == e[2] \in DOMAIN LinkTags

hasLinkKind(K, e) == K = LK_All \/ LinkTags[e[2]].Kind = K

\* the children of n in the graph filtered by kind K
Children(K, n) == {e[1] : e \in {x \in Successors[n] : hasLinkKind(K, x)}}

\* LayoutTypeSystem::verifyConsistency: invariants 1 to 4 of the graph
verifyConsistency ==
  /\ \A n \in Layouts :
       /\ \A e \in Successors[n] :
            /\ e[1] \in Layouts /\ e[1] # n
            /\ <<n, e[2]>> \in Predecessors[e[1]]
       /\ \A e \in Predecessors[n] :
            /\ e[1] \in Layouts /\ e[1] # n
            /\ <<n, e[2]>> \in Successors[e[1]]
  /\ \A k \in DOMAIN TypePtrToLayoutMap : TypePtrToLayoutMap[k] \in Layouts
  /\ \A n \in Layouts :
       n \in DOMAIN LayoutToTypePtrsMap /\ LayoutToTypePtrsMap[n] # {}

\* depth-first search from n in the graph filtered by K, Gray the nodes on
\* the stack: TRUE when a link leads back to a node on the stack
RECURSIVE FindsBackLink(_, _, _)
FindsBackLink(K, n, Gray) ==
  \E m \in Children(K, n) :
    m \in Gray \/ FindsBackLink(K, m, Gray \cup {m})

\* LayoutTypeSystem::verifyInheritanceDAG: the graph is valid and its
\* inheritance links form no cycle
verifyInheritanceDAG ==
  /\ verifyConsistency
  /\ \A n \in Layouts : ~FindsBackLink(LK_Inheritance, n, {n})

\* LayoutTypeSystem::verifyInheritanceTree: no node has two incoming
\* inheritance links
verifyInheritanceTree ==
  \A n \in Layouts :
    Cardinality({e \in Predecessors[n] : hasLinkKind(LK_Inheritance, e)}) <= 1

\* LayoutTypeSystem::verifyNoEquality: no link is an equality link
verifyNoEquality ==
  \A n \in Layouts : \A e \in Successors[n] : ~hasLinkKind(LK_Equality, e)

(***************************************************************************)
(* Equality normalization                                                  *)
(***************************************************************************)
\* the transitive closure of the pairs R
RECURSIVE Closure(_)
Closure(R) ==
  LET D == {z[1] : z \in R} \cup {z[2] : z \in R}
      Step == {z \in D \X D :
                 z \in R \/ \E m \in D : <<z[1], m>> \in R /\ <<m, z[2]>> \in R}
  IN  IF Step = R THEN R ELSE Closure(Step)

\* the equality links as pairs <<source, target>>
EqualityLinks ==
  {<<a, b>> \in Layouts \X Layouts :
     \E e \in Successors[a] : e[1] = b /\ hasLinkKind(LK_Equality, e)}

\* the pass starts on the graph as built: it notes the keys, and which keys
\* name nodes that an equality link joins
StartNorm ==
  /\ ~aborted
  /\ pass.Phase = "build"
  /\ LET Mapped == DOMAIN TypePtrToLayoutMap
     IN  pass' = [Phase |-> "normalize",
                  Keys |-> Mapped,
                  Linked |-> {z \in Mapped \X Mapped :
                                <<TypePtrToLayoutMap[z[1]], TypePtrToLayoutMap[z[2]]>>
                                  \in EqualityLinks}]
  /\ UNCHANGED <<NID, Layouts, Successors, Predecessors, L, TypePtrToLayoutMap,
                 LayoutToTypePtrsMap, LinkTags, aborted, builderVars>>

\* one step of the pass: two nodes that an equality link joins are merged
NormStep(From, Into) ==
  /\ pass.Phase = "normalize"
  /\ <<From, Into>> \in EqualityLinks
  /\ Merge(From, Into)

\* the pass ends when no equality link is left
FinishNorm ==
  /\ pass.Phase = "normalize"
  /\ verifyNoEquality
  /\ pass' = [pass EXCEPT !.Phase = "done"]
  /\ UNCHANGED <<NID, Layouts, Successors, Predecessors, L, TypePtrToLayoutMap,
                 LayoutToTypePtrsMap, LinkTags, aborted, builderVars>>

(***************************************************************************)
(* Statement builder: types                                                *)
(***************************************************************************)
\* llvm::Type: an integer of W bits, a pointer to an integer of W bits, void
\* and float
IntegerType(W) == [T |-> "Integer", W |-> W]
PointerType(W) == [T |-> "Pointer", W |-> W]
VoidType == [T |-> "Void"]
FloatType == [T |-> "Float"]

\* clang::QualType: a builtin type, a pointer, or a constant array of char
Builtin(B) == [K |-> "Builtin", B |-> B, Volatile |-> FALSE]
Pointer(Q) == [K |-> "Pointer", To |-> Q, Volatile |-> FALSE]
ConstantArray(Q, N) == [K |-> "ConstantArray", Of |-> Q, N |-> N, Volatile |-> FALSE]
addVolatile(Q) == [Q EXCEPT !.Volatile = TRUE]

VoidTy == Builtin("Void")
CharTy == Builtin("Char_S")
IntTy == Builtin("Int")
UnsignedIntTy == Builtin("UInt")
ShortTy == Builtin("Short")
UnsignedShortTy == Builtin("UShort")
LongLongTy == Builtin("LongLong")
UnsignedLongLongTy == Builtin("ULongLong")
UIntPtrType == Builtin("ULong")

\* the builtin integer kinds, signed and unsigned
SignedKinds == {"Char_S", "SChar", "Short", "Int", "Long", "LongLong", "Int128"}
UnsignedKinds == {"Bool", "UChar", "UShort", "UInt", "ULong", "ULongLong", "UInt128"}

isIntegerType(Q) == Q.K = "Builtin" /\ Q.B \in SignedKinds \cup UnsignedKinds
isUnsignedIntegerType(Q) == Q.K = "Builtin" /\ Q.B \in UnsignedKinds
isPointerType(Q) == Q.K = "Pointer"

\* ASTContext::getTypeSize, in bits, on a target of 64-bit pointers
getTypeSize(Q) ==
  IF Q.K = "Pointer" THEN 64
  ELSE CASE Q.B \in {"Bool", "Char_S", "SChar", "UChar"} -> 8
         [] Q.B \in {"Short", "UShort"} -> 16
         [] Q.B \in {"Int", "UInt", "Float"} -> 32
         [] Q.B \in {"Long", "ULong", "LongLong", "ULongLong"} -> 64
         [] Q.B \in {"Int128", "UInt128"} -> 128
         [] OTHER -> 0

\* ASTContext::getIntTypeForBitwidth(Size, /* Signed */ true)
getIntTypeForBitwidth(Size) ==
  CASE Size = 8 -> Builtin("SChar")
    [] Size = 16 -> Builtin("Short")
    [] Size = 32 -> Builtin("Int")
    [] Size = 64 -> Builtin("Long")
    [] OTHER -> Builtin("Int128")

\* IRASTTypeTranslation::getQualType on an integer of W bits: the unsigned
\* integer of that width
getQualTypeOfInteger(W) ==
  CASE W = 1 -> Builtin("Bool")
    [] W = 8 -> Builtin("UChar")
    [] W = 16 -> Builtin("UShort")
    [] W = 32 -> Builtin("UInt")
    [] W = 64 -> Builtin("ULong")
    [] OTHER -> Builtin("UInt128")

\* IRASTTypeTranslation::getQualType on an llvm::Type
getQualType(T) ==
  CASE T.T = "Integer" -> getQualTypeOfInteger(T.W)
    [] T.T = "Pointer" -> Pointer(getQualTypeOfInteger(T.W))
    [] T.T = "Float" -> Builtin("Float")
    [] OTHER -> VoidTy

(***************************************************************************)
(* Statement builder: the AST                                              *)
(***************************************************************************)
\* what a fatal failure (revng_abort, a failed revng_assert) leaves in place
\* of a result, and the null statement
Aborted == [E |-> "abort"]
NullStmt == [E |-> "nullptr"]

IntegerLiteral(V, Ty) == [E |-> "IntegerLiteral", V |-> V, Ty |-> Ty, VK |-> "VK_RValue"]
CharacterLiteral(V, Ty) == [E |-> "CharacterLiteral", V |-> V, Ty |-> Ty, VK |-> "VK_RValue"]
DeclRefExpr(D, Ty) == [E |-> "DeclRefExpr", D |-> D, Ty |-> Ty, VK |-> "VK_LValue"]
ParenExpr(Sub) == [E |-> "ParenExpr", Sub |-> Sub, Ty |-> Sub.Ty, VK |-> Sub.VK]
CStyleCastExpr(Ty, CK, Sub) ==
  [E |-> "CStyleCastExpr", CK |-> CK, Sub |-> Sub, Ty |-> Ty, VK |-> "VK_RValue"]
ImplicitCastExpr(Ty, CK, Sub) ==
  [E |-> "ImplicitCastExpr", CK |-> CK, Sub |-> Sub, Ty |-> Ty, VK |-> "VK_RValue"]
BinaryOperator(LHS, RHS, Opc, Ty) ==
  [E |-> "BinaryOperator", Opc |-> Opc, LHS |-> LHS, RHS |-> RHS, Ty |-> Ty,
   VK |-> "VK_RValue"]
UnaryOperator(Sub, Opc, Ty, VK) ==
  [E |-> "UnaryOperator", Opc |-> Opc, Sub |-> Sub, Ty |-> Ty, VK |-> VK]
ArraySubscriptExpr(Base, Idx, Ty) ==
  [E |-> "ArraySubscriptExpr", Base |-> Base, Idx |-> Idx, Ty |-> Ty, VK |-> "VK_LValue"]
ConditionalOperator(Cond, LHS, RHS, Ty) ==
  [E |-> "ConditionalOperator", Cond |-> Cond, LHS |-> LHS, RHS |-> RHS, Ty |-> Ty,
   VK |-> "VK_RValue"]
CallExpr(Callee, Args, Ty) ==
  [E |-> "CallExpr", Callee |-> Callee, Args |-> Args, Ty |-> Ty, VK |-> "VK_RValue"]
ReturnStmt(RetExpr) == [E |-> "ReturnStmt", RetExpr |-> RetExpr]

\* createCast: a C-style cast of RHS to LHSQualTy, its kind chosen by the
\* integer/pointer class of both types
createCast(LHSQualTy, RHS) ==
  IF RHS = Aborted THEN Aborted
  ELSE IF isIntegerType(LHSQualTy)
  THEN IF isIntegerType(RHS.Ty)
       THEN CStyleCastExpr(LHSQualTy, "CK_IntegralCast", RHS)
       ELSE IF isPointerType(RHS.Ty)
            THEN CStyleCastExpr(LHSQualTy, "CK_PointerToIntegral", RHS)
            ELSE Aborted
  ELSE IF isPointerType(LHSQualTy)
  THEN IF isIntegerType(RHS.Ty)
       THEN LET PtrSize == getTypeSize(LHSQualTy)
                IntegerSize == getTypeSize(RHS.Ty)
            IN  IF PtrSize < IntegerSize THEN Aborted
                ELSE CStyleCastExpr(LHSQualTy, "CK_IntegralToPointer",
                       IF PtrSize > IntegerSize
                       THEN CStyleCastExpr(UIntPtrType, "CK_IntegralCast", RHS)
                       ELSE RHS)
       ELSE IF isPointerType(RHS.Ty)
            THEN CStyleCastExpr(LHSQualTy, "CK_BitCast", RHS)
            ELSE Aborted
  ELSE Aborted

(***************************************************************************)
(* Statement builder: values and declarations                              *)
(***************************************************************************)
\* llvm::Value: constants, functions, globals, arguments, and the
\* instructions of F named by their position
ConstantInt(W, Val) == [V |-> "ConstantInt", Ty |-> IntegerType(W), Val |-> Val]
ConstantPointerNull(W) == [V |-> "ConstantPointerNull", Ty |-> PointerType(W)]
ConstantFP == [V |-> "ConstantFP", Ty |-> FloatType]
ConstantExpr(Opc, Op0, Ty) == [V |-> "ConstantExpr", Opc |-> Opc, Op0 |-> Op0, Ty |-> Ty]
Function(Name) == [V |-> "Function", Name |-> Name, Ty |-> PointerType(8)]
GlobalVariable(Name, W) == [V |-> "GlobalVariable", Name |-> Name, Ty |-> PointerType(W)]
Argument(ArgNo, Ty) == [V |-> "Argument", ArgNo |-> ArgNo, Ty |-> Ty]
Instruction(Idx) == [V |-> "Instruction", Idx |-> Idx]

\* the opcodes of the integer-reinterpretation casts
CastOpcodes == {"Trunc", "ZExt", "SExt", "IntToPtr", "PtrToInt", "BitCast"}

\* the declarations the builder is given: FunctionDecls maps a function to
\* its FunctionDecl (the parameters' types; NumArgs is the arg_size() of the
\* llvm::Function, Ret its return type)
FunctionDecls ==
  [Name \in {"self", "abort", "f_void", "f_void1", "f_none", "f_int", "f_pair", "f_two"} |->
     CASE Name = "self" ->
            [Params |-> <<getQualTypeOfInteger(32), getQualTypeOfInteger(32),
                          getQualTypeOfInteger(64), Pointer(getQualTypeOfInteger(8)),
                          getQualTypeOfInteger(1), getQualTypeOfInteger(8),
                          getQualTypeOfInteger(16), getQualTypeOfInteger(128)>>,
             NumArgs |-> 8, Ret |-> IntegerType(32)]
       [] Name = "abort" -> [Params |-> << >>, NumArgs |-> 0, Ret |-> VoidType]
       [] Name = "f_void" -> [Params |-> <<VoidTy>>, NumArgs |-> 0, Ret |-> IntegerType(32)]
       [] Name = "f_void1" -> [Params |-> <<VoidTy>>, NumArgs |-> 1, Ret |-> IntegerType(32)]
       [] Name = "f_none" -> [Params |-> << >>, NumArgs |-> 1, Ret |-> IntegerType(32)]
       [] Name = "f_int" ->
            [Params |-> <<getQualTypeOfInteger(8)>>, NumArgs |-> 1, Ret |-> IntegerType(64)]
       [] Name = "f_pair" ->
            [Params |-> <<getQualTypeOfInteger(32), getQualTypeOfInteger(8)>>,
             NumArgs |-> 2, Ret |-> IntegerType(32)]
       [] OTHER ->
            [Params |-> <<getQualTypeOfInteger(32), getQualTypeOfInteger(32)>>,
             NumArgs |-> 1, Ret |-> IntegerType(32)]]

\* a declaration's name is kept as a text and a number (var_ and 3 for var_3)
FunctionDecl(Name) == [D |-> "FunctionDecl", Name |-> <<Name, 0>>]
ParmVarDecl(Name, ArgNo) ==
  [D |-> "ParmVarDecl", Name |-> <<Name, ArgNo>>,
   Ty |-> FunctionDecls[Name].Params[ArgNo + 1]]
GlobalDecl(G) == [D |-> "VarDecl", Name |-> <<G.Name, 0>>, Ty |-> getQualTypeOfInteger(G.Ty.W)]

\* the llvm::Type of a value
TypeOf(V) == IF V.V = "Instruction" THEN F[V.Idx].Ty ELSE V.Ty

(***************************************************************************)
(* Statement builder: expressions                                          *)
(***************************************************************************)
\* StmtBuilder::getLiteralFromConstant on a ConstantData
getLiteralFromConstantData(CD) ==
  IF CD.V = "ConstantInt"
  THEN LET LiteralTy == getQualType(CD.Ty)
           ConstValue == CD.Val
       IN  CASE LiteralTy.B \in {"Char_U", "Char_S", "UChar", "SChar"} ->
                  CharacterLiteral(ConstValue, CharTy)
             [] LiteralTy.B = "UShort" ->
                  createCast(UnsignedShortTy, IntegerLiteral(ConstValue, UnsignedIntTy))
             [] LiteralTy.B = "Short" ->
                  createCast(ShortTy, IntegerLiteral(ConstValue, IntTy))
             [] LiteralTy.B \in {"UInt", "ULong", "ULongLong", "Int", "Long", "LongLong"} ->
                  IntegerLiteral(ConstValue, LiteralTy)
             [] LiteralTy.B = "UInt128" -> IntegerLiteral(ConstValue, UnsignedLongLongTy)
             [] LiteralTy.B = "Int128" -> IntegerLiteral(ConstValue, LongLongTy)
             [] OTHER -> Aborted
  ELSE IF CD.V = "ConstantPointerNull"
  THEN IntegerLiteral(0, UIntPtrType)
  ELSE Aborted

\* StmtBuilder::getLiteralFromConstant; the inner value of a constant
\* expression goes through getExprForValue, which sends a ConstantInt back
\* here
getLiteralFromConstant(C) ==
  IF C.V \in {"ConstantInt", "ConstantPointerNull", "ConstantFP"}
  THEN getLiteralFromConstantData(C)
  ELSE IF C.V = "ConstantExpr" /\ C.Opc \in CastOpcodes /\ C.Op0.V = "ConstantInt"
       THEN getLiteralFromConstantData(C.Op0)
       ELSE Aborted

\* the ParenExpr that getParenthesizedExprForValue adds
Parenthesized(Res) ==
  IF Res = Aborted THEN Aborted
  ELSE IF Res.E \in {"BinaryOperator", "ConditionalOperator"} THEN ParenExpr(Res)
  ELSE Res

\* an integer address converted to a pointer to PointeeType, as the load and
\* store code does it; a pointer address is left alone
AddrToPointer(AddrExpr, PointeeType) ==
  IF AddrExpr = Aborted THEN Aborted
  ELSE IF isPointerType(AddrExpr.Ty) THEN AddrExpr
  ELSE IF ~isIntegerType(AddrExpr.Ty) THEN Aborted
  ELSE LET PtrTy == Pointer(PointeeType)
           PtrSize == getTypeSize(PtrTy)
           IntegerSize == getTypeSize(AddrExpr.Ty)
       IN  IF PtrSize < IntegerSize THEN Aborted
           ELSE createCast(PtrTy, IF PtrSize > IntegerSize
                                  THEN createCast(UIntPtrType, AddrExpr)
                                  ELSE AddrExpr)

\* the cast to pointer-to-volatile that an access through the null pointer
\* constant gets
NullToVolatile(Addr, AddrExpr) ==
  IF AddrExpr = Aborted THEN Aborted
  ELSE IF Addr.V = "ConstantPointerNull"
       THEN createCast(Pointer(addVolatile(AddrExpr.Ty.To)), AddrExpr)
       ELSE AddrExpr

\* UnaryOperator(AddrExpr, UO_Deref, PointeeType, VK_LValue)
Deref(AddrExpr, PointeeType) ==
  IF AddrExpr = Aborted THEN Aborted
  ELSE UnaryOperator(AddrExpr, "UO_Deref", PointeeType, "VK_LValue")

\* StmtBuilder::getExprForValue on an instruction that has neither a variable
\* nor a statement yet: a load or store gives the lvalue it reads or writes,
\* a cast is built in place, anything else is fatal
RECURSIVE getExprForValue(_)
getExprForNewInstruction(V) ==
  LET I == F[V.Idx]
  IN  IF I.Opcode \in {"Load", "Store"}
    THEN LET Addr == IF I.Opcode = "Load" THEN I.Ops[1] ELSE I.Ops[2]
             AddrExpr == Parenthesized(getExprForValue(Addr))
             PointeeType == IF I.Opcode = "Load" THEN getQualType(I.Ty)
                            ELSE getQualType(TypeOf(I.Ops[1]))
         IN  IF AddrExpr = Aborted THEN Aborted
             ELSE IF Addr.V = "GlobalVariable" THEN AddrExpr
             ELSE Deref(NullToVolatile(Addr,
                          AddrToPointer(ImplicitCastExpr(AddrExpr.Ty,
                                                         "CK_LValueToRValue",
                                                         AddrExpr),
                                        PointeeType)),
                        PointeeType)
    ELSE IF I.Opcode \in CastOpcodes
    THEN LET Result == Parenthesized(getExprForValue(I.Ops[1]))
             RHSTy == TypeOf(I.Ops[1])
             LHSTy == I.Ty
             DestTy == getQualType(LHSTy)
             IsPtr(T) == T.T = "Pointer"
         IN  IF Result = Aborted THEN Aborted
             ELSE IF RHSTy = LHSTy THEN Result
             ELSE IF ~(RHSTy.T \in {"Integer", "Pointer"} /\ LHSTy.T \in {"Integer", "Pointer"})
             THEN Aborted
             ELSE CASE I.Opcode \in {"Trunc", "ZExt", "SExt"} ->
                         IF IsPtr(RHSTy) \/ IsPtr(LHSTy) THEN Aborted
                         ELSE CStyleCastExpr(DestTy, "CK_IntegralCast", Result)
                    [] I.Opcode = "IntToPtr" ->
                         IF IsPtr(RHSTy) \/ ~IsPtr(LHSTy) THEN Aborted
                         ELSE IF getTypeSize(DestTy) < getTypeSize(Result.Ty)
                         THEN Aborted
                         ELSE CStyleCastExpr(DestTy, "CK_IntegralToPointer",
                                IF getTypeSize(DestTy) > getTypeSize(Result.Ty)
                                THEN createCast(UIntPtrType, Result)
                                ELSE Result)
                    [] I.Opcode = "PtrToInt" ->
                         IF ~IsPtr(RHSTy) \/ IsPtr(LHSTy) THEN Aborted
                         ELSE CStyleCastExpr(DestTy, "CK_PointerToIntegral", Result)
                    [] OTHER ->
                         IF ~IsPtr(RHSTy) \/ ~IsPtr(LHSTy) THEN Aborted
                         ELSE CStyleCastExpr(DestTy, "CK_BitCast", Result)
    ELSE Aborted

\* StmtBuilder::getExprForValue: constants, functions, globals and arguments
\* are built on each call; an instruction gives the reference to its variable
\* if it has one, else its statement if it has one, else it is a new
\* instruction
getExprForValueStmtFirst(V) ==
  CASE V.V \in {"ConstantInt", "ConstantPointerNull", "ConstantFP", "ConstantExpr"} ->
         getLiteralFromConstant(V)
    [] V.V = "Function" ->
         IF V.Name \in DOMAIN FunctionDecls
         THEN DeclRefExpr(FunctionDecl(V.Name), Builtin("Function"))
         ELSE Aborted
    [] V.V = "GlobalVariable" -> DeclRefExpr(GlobalDecl(V), GlobalDecl(V).Ty)
    [] V.V = "Argument" ->
         IF Len(FunctionDecls["self"].Params) # FunctionDecls["self"].NumArgs
         THEN Aborted
         ELSE DeclRefExpr(ParmVarDecl("self", V.ArgNo), ParmVarDecl("self", V.ArgNo).Ty)
    [] V.V = "Instruction" ->
         IF V.Idx \in DOMAIN InstrStmts
         THEN IF InstrStmts[V.Idx].E = "ReturnStmt" THEN Aborted
              ELSE InstrStmts[V.Idx]
         ELSE IF V.Idx \in DOMAIN VarDecls
         THEN DeclRefExpr(VarDecls[V.Idx], VarDecls[V.Idx].Ty)
         ELSE getExprForNewInstruction(V)
    [] OTHER -> Aborted

getExprForValue(V) ==
  CASE V.V \in {"ConstantInt", "ConstantPointerNull", "ConstantFP", "ConstantExpr"} ->
         getLiteralFromConstant(V)
    [] V.V = "Function" ->
         IF V.Name \in DOMAIN FunctionDecls
         THEN DeclRefExpr(FunctionDecl(V.Name), Builtin("Function"))
         ELSE Aborted
    [] V.V = "GlobalVariable" -> DeclRefExpr(GlobalDecl(V), GlobalDecl(V).Ty)
    [] V.V = "Argument" ->
         IF Len(FunctionDecls["self"].Params) # FunctionDecls["self"].NumArgs
         THEN Aborted
         ELSE DeclRefExpr(ParmVarDecl("self", V.ArgNo), ParmVarDecl("self", V.ArgNo).Ty)
    [] V.V = "Instruction" ->
         IF V.Idx \in DOMAIN VarDecls
         THEN DeclRefExpr(VarDecls[V.Idx], VarDecls[V.Idx].Ty)
         ELSE IF V.Idx \in DOMAIN InstrStmts
         THEN IF InstrStmts[V.Idx].E = "ReturnStmt" THEN Aborted
              ELSE InstrStmts[V.Idx]
         ELSE getExprForNewInstruction(V)
    [] OTHER -> Aborted

\* StmtBuilder::getParenthesizedExprForValue
getParenthesizedExprForValue(V) == Parenthesized(getExprForValue(V))

(***************************************************************************)
(* Statement builder: statements                                           *)
(***************************************************************************)
BinaryOpcodes ==
  {"Add", "Sub", "Mul", "UDiv", "SDiv", "URem", "SRem", "And", "Or", "Xor",
   "ICmp", "Shl", "LShr", "AShr"}

SignedPredicates == {"ICMP_SGT", "ICMP_SGE", "ICMP_SLT", "ICMP_SLE"}

\* getClangBinaryOpKind: the case of Mul has no break and runs into the case
\* of And
getClangBinaryOpKind(I) ==
  CASE I.Opcode = "Add" -> "BO_Add"
    [] I.Opcode = "Sub" -> "BO_Sub"
    [] I.Opcode = "Mul" -> "BO_And"
    [] I.Opcode = "And" -> "BO_And"
    [] I.Opcode = "Or" -> "BO_Or"
    [] I.Opcode = "Xor" -> "BO_Xor"
    [] I.Opcode = "ICmp" ->
         (CASE I.Pred = "ICMP_EQ" -> "BO_EQ"
            [] I.Pred = "ICMP_NE" -> "BO_NE"
            [] I.Pred \in {"ICMP_UGT", "ICMP_SGT"} -> "BO_GT"
            [] I.Pred \in {"ICMP_UGE", "ICMP_SGE"} -> "BO_GE"
            [] I.Pred \in {"ICMP_ULT", "ICMP_SLT"} -> "BO_LT"
            [] I.Pred \in {"ICMP_ULE", "ICMP_SLE"} -> "BO_LE"
            [] OTHER -> "abort")
    [] I.Opcode = "Shl" -> "BO_Shl"
    [] I.Opcode \in {"LShr", "AShr"} -> "BO_Shr"
    [] I.Opcode \in {"UDiv", "SDiv"} -> "BO_Div"
    [] I.Opcode \in {"URem", "SRem"} -> "BO_Rem"
    [] OTHER -> "abort"

is128Int(E) == E.Ty = Builtin("Int128") \/ E.Ty = Builtin("UInt128")

\* the assertion of getCastedBinaryOperands on the operands' sizes
SizesAssertedNever(I, LHS, RHS) == TRUE

SizesAsserted(I, LHS, RHS) ==
  \/ getTypeSize(LHS.Ty) = getTypeSize(RHS.Ty)
  \/ I.Opcode \in {"Shl", "LShr", "AShr"}
  \/ is128Int(RHS) \/ is128Int(LHS)

\* the operands of a signed operation: each one of unsigned type is cast to
\* SignedTy
SignedOperandsFirstOnly(SignedTy, LHS, RHS) ==
  <<IF isUnsignedIntegerType(LHS.Ty) THEN createCast(SignedTy, LHS) ELSE LHS, RHS>>

SignedOperands(SignedTy, LHS, RHS) ==
  <<IF isUnsignedIntegerType(LHS.Ty) THEN createCast(SignedTy, LHS) ELSE LHS,
    IF isUnsignedIntegerType(RHS.Ty) THEN createCast(SignedTy, RHS) ELSE RHS>>

\* whether the operands of I are taken as signed: SDiv, SRem, AShr and the
\* ICmp of a signed predicate
isSignedPredicateOnly(I) == I.Opcode = "ICmp" /\ I.Pred \in SignedPredicates

isSigned(I) == I.Opcode # "ICmp" \/ I.Pred \in SignedPredicates

\* getCastedBinaryOperands: the operands as the operator takes them, or
\* Aborted
getCastedBinaryOperands(I, LHS, RHS) ==
  IF ~(isIntegerType(LHS.Ty) /\ isIntegerType(RHS.Ty)) THEN Aborted
  ELSE LET LHSSize == getTypeSize(LHS.Ty)
           RHSSize == getTypeSize(RHS.Ty)
           Size == IF LHSSize > RHSSize THEN LHSSize ELSE RHSSize
           SignedTy == getIntTypeForBitwidth(Size)
       IN  IF ~SizesAsserted(I, LHS, RHS)
           THEN Aborted
           ELSE IF I.Opcode \in {"Add", "Sub", "Mul", "And", "Or", "Xor", "UDiv", "URem",
                                  "Shl", "LShr"}
           THEN <<LHS, RHS>>
           ELSE IF I.Opcode \in {"SDiv", "SRem", "AShr", "ICmp"}
           THEN IF isSigned(I)
                THEN SignedOperands(SignedTy, LHS, RHS)
                ELSE <<LHS, RHS>>
           ELSE Aborted

\* the lvalue-to-rvalue conversion of an operand
ToRValue(E) ==
  IF E = Aborted THEN Aborted
  ELSE IF E.VK = "VK_LValue" THEN ImplicitCastExpr(E.Ty, "CK_LValueToRValue", E)
  ELSE E

\* StmtBuilder::createRValueExprForBinaryOperator
createRValueExprForBinaryOperatorSignedOnly(I) ==
  LET BinOpKind == getClangBinaryOpKind(I)
      LHS == ToRValue(getParenthesizedExprForValue(I.Ops[1]))
      RHS == ToRValue(getParenthesizedExprForValue(I.Ops[2]))
  IN  IF Len(I.Ops) # 2 \/ BinOpKind = "abort" THEN Aborted
      ELSE IF LHS = Aborted \/ RHS = Aborted THEN Aborted
      ELSE LET Casted == getCastedBinaryOperands(I, LHS, RHS)
           IN  IF Casted = Aborted THEN Aborted
               ELSE LET Res == BinaryOperator(Casted[1], Casted[2], BinOpKind, Casted[1].Ty)
                    IN  IF \/ I.Opcode \in {"SDiv", "SRem", "AShr"}
                           \/ I.Opcode = "ICmp" /\ I.Pred \in SignedPredicates
                        THEN createCast(getQualType(I.Ty), ParenExpr(Res))
                        ELSE Res

createRValueExprForBinaryOperator(I) ==
  LET BinOpKind == getClangBinaryOpKind(I)
      LHS == ToRValue(getParenthesizedExprForValue(I.Ops[1]))
      RHS == ToRValue(getParenthesizedExprForValue(I.Ops[2]))
  IN  IF Len(I.Ops) # 2 \/ BinOpKind = "abort" THEN Aborted
      ELSE IF LHS = Aborted \/ RHS = Aborted THEN Aborted
      ELSE LET Casted == getCastedBinaryOperands(I, LHS, RHS)
           IN  IF Casted = Aborted THEN Aborted
               ELSE LET Res == BinaryOperator(Casted[1], Casted[2], BinOpKind, Casted[1].Ty)
                    IN  IF I.Opcode \in {"SDiv", "SRem", "AShr", "ICmp"}
                        THEN createCast(getQualType(I.Ty), ParenExpr(Res))
                        ELSE Res

\* the arguments of an accepted call: each operand's expression, cast to the
\* parameter's type when the types differ
CallArgsUncast(I, HasNoParms) ==
  [OpId \in 1 .. Len(I.Ops) |->
     IF HasNoParms THEN NullStmt ELSE getExprForValue(I.Ops[OpId])]

\* the arguments of an accepted call: each operand's expression, cast to the
\* parameter's type when the types differ; a slot is left null when the
\* declaration counts as having no parameters
CallArgs(I, HasNoParms) ==
  [OpId \in 1 .. Len(I.Ops) |->
     IF HasNoParms THEN NullStmt
     ELSE LET ArgExpr == getExprForValue(I.Ops[OpId])
              ParmQualTy == FunctionDecls[I.Callee].Params[OpId]
          IN  IF ArgExpr = Aborted THEN Aborted
              ELSE IF ParmQualTy # ArgExpr.Ty
                   THEN createCast(ParmQualTy, ParenExpr(ArgExpr))
                   ELSE ArgExpr]

\* StmtBuilder::buildStmt on the store at Idx: the assignment of the stored
\* value to the destination, the value cast when its type is not the
\* destination's
buildStmtStoreCastAlways(Idx) ==
  LET LHS == getParenthesizedExprForValue(Instruction(Idx))
      RHS == getParenthesizedExprForValue(F[Idx].Ops[1])
  IN  IF LHS = Aborted \/ RHS = Aborted THEN Aborted
      ELSE LET Casted == createCast(LHS.Ty, IF RHS.E = "BinaryOperator"
                                            THEN ParenExpr(RHS) ELSE RHS)
           IN  IF Casted = Aborted THEN Aborted
               ELSE BinaryOperator(LHS, Casted, "BO_Assign", LHS.Ty)

buildStmtStore(Idx) ==
  LET LHS == getParenthesizedExprForValue(Instruction(Idx))
      RHS == getParenthesizedExprForValue(F[Idx].Ops[1])
  IN  IF LHS = Aborted \/ RHS = Aborted THEN Aborted
      ELSE LET Casted == IF RHS.Ty # LHS.Ty
                         THEN createCast(LHS.Ty, IF RHS.E = "BinaryOperator"
                                                 THEN ParenExpr(RHS) ELSE RHS)
                         ELSE RHS
           IN  IF Casted = Aborted THEN Aborted
               ELSE BinaryOperator(LHS, Casted, "BO_Assign", LHS.Ty)

\* StmtBuilder::buildStmt on Br and Switch, whose cases start with
\* revng_abort, and on the unsupported opcodes
buildStmtUnexpectedBuilt(I) == ReturnStmt(NullStmt)

buildStmtUnexpected(I) == Aborted

\* StmtBuilder::buildStmt: the statement of the instruction at Idx, or
\* Aborted; Allocas is AllocaDecls at the call
buildStmt(Idx, Allocas) ==
  LET I == F[Idx]
  IN  CASE I.Opcode = "Ret" ->
             IF Len(I.Ops) = 0 THEN ReturnStmt(NullStmt)
             ELSE LET ReturnedExpr == getExprForValue(I.Ops[1])
                  IN  IF ReturnedExpr = Aborted THEN Aborted
                      ELSE ReturnStmt(ReturnedExpr)
        [] I.Opcode \in BinaryOpcodes -> createRValueExprForBinaryOperator(I)
        [] I.Opcode = "Alloca" ->
             IF Idx \notin DOMAIN Allocas THEN Aborted
             ELSE LET ArrayDecl == Allocas[Idx]
                      CharPtrTy == Pointer(CharTy)
                      ArrayPtrDecay == ImplicitCastExpr(CharPtrTy, "CK_ArrayToPointerDecay",
                                                        DeclRefExpr(ArrayDecl, ArrayDecl.Ty))
                  IN  UnaryOperator(ArraySubscriptExpr(ArrayPtrDecay,
                                                       IntegerLiteral(0, IntTy), CharTy),
                                    "UO_AddrOf", CharPtrTy, "VK_RValue")
        [] I.Opcode = "Load" ->
             LET Addr == I.Ops[1]
                 AddrExpr == getParenthesizedExprForValue(Addr)
                 PointeeType == getQualType(I.Ty)
             IN  IF AddrExpr = Aborted THEN Aborted
                 ELSE IF Addr.V = "GlobalVariable" THEN AddrExpr
                 ELSE Deref(NullToVolatile(Addr, AddrToPointer(AddrExpr, PointeeType)),
                            PointeeType)
        [] I.Opcode = "Store" -> buildStmtStore(Idx)
        [] I.Opcode \in CastOpcodes ->
             LET Res == getParenthesizedExprForValue(I.Ops[1])
                 LHSQualType == getQualType(I.Ty)
             IN  IF Len(I.Ops) # 1 \/ Res = Aborted THEN Aborted
                 ELSE IF LHSQualType # Res.Ty THEN createCast(LHSQualType, Res)
                 ELSE Res
        [] I.Opcode = "Select" ->
             LET Cond == getParenthesizedExprForValue(I.Ops[1])
                 TrueExpr == getParenthesizedExprForValue(I.Ops[2])
                 FalseExpr == getParenthesizedExprForValue(I.Ops[3])
             IN  IF Cond = Aborted \/ TrueExpr = Aborted \/ FalseExpr = Aborted THEN Aborted
                 ELSE ConditionalOperator(Cond, TrueExpr, FalseExpr, getQualType(I.Ty))
        [] I.Opcode = "Call" ->
             IF I.Callee \notin DOMAIN FunctionDecls THEN Aborted
             ELSE LET CalleeExpr == getExprForValue(Function(I.Callee))
                      FD == FunctionDecls[I.Callee]
                      NumArgs == FD.NumArgs
                      NumParms == Len(FD.Params)
                      NumOps == Len(I.Ops)
                      HasNoParms == NumParms = 0 \/ (NumParms = 1 /\ FD.Params[1] = VoidTy)
                  IN  IF ~(HasNoParms \/ NumArgs = NumParms) THEN Aborted
                      ELSE IF NumArgs # NumOps THEN Aborted
                      ELSE LET Args == CallArgs(I, HasNoParms)
                           IN  IF \E OpId \in DOMAIN Args : Args[OpId] = Aborted
                               THEN Aborted
                               ELSE CallExpr(CalleeExpr, Args, getQualType(I.Ty))
        [] I.Opcode = "Unreachable" ->
             CallExpr(getExprForValue(Function("abort")), << >>, VoidTy)
        [] OTHER -> buildStmtUnexpected(I)

\* Instruction::getNumUses: the operands of F that name the instruction at Idx
NumUses(Idx) ==
  Cardinality({u \in UNION {{<<j, k>> : k \in DOMAIN F[j].Ops} : j \in DOMAIN F} :
                 F[u[1]].Ops[u[2]] = Instruction(Idx)})

\* a size in bits, a uint64_t, is kept as two limbs <<high, low>> of 16 bits;
\* it is above std::numeric_limits<unsigned>::max() when the high limb is
\* above 65535
AboveMaxUnsignedNever(Size) == FALSE

AboveMaxUnsigned(Size) == Size[1] > 65535

\* StmtBuilder::createVarDecl for the instruction I: var_K with K the counter
createVarDeclInt(I, K) == [D |-> "VarDecl", Name |-> <<"var_", K>>, Ty |-> IntTy]

createVarDecl(I, K) == [D |-> "VarDecl", Name |-> <<"var_", K>>, Ty |-> getQualType(I.Ty)]

\* the label that createAST gives a basic block: bb_N
LabelDecl(N) == [D |-> "LabelDecl", Name |-> <<"bb_", N>>]

\* BBLabelDecls and BBId when the instruction at pc is reached: the first
\* instruction of a basic block brings the block's label
LabelsAt(Idx) ==
  IF F[Idx].NewBB
  THEN [Labels |-> [i \in DOMAIN BBLabelDecls \cup {Idx} |->
                      IF i = Idx THEN LabelDecl(BBId) ELSE BBLabelDecls[i]],
        BBId |-> BBId + 1]
  ELSE [Labels |-> BBLabelDecls, BBId |-> BBId]

\* createAST on a branch: the instruction is passed over, no statement and no
\* variable is made for it
createASTBranchRecorded ==
  /\ pc' = pc + 1
  /\ InstrStmts' = [i \in DOMAIN InstrStmts \cup {pc} |->
                      IF i = pc THEN NullStmt ELSE InstrStmts[i]]
  /\ UNCHANGED <<aborted, VarDecls, AllocaDecls, NVar>>

createASTBranch ==
  /\ pc' = pc + 1
  /\ UNCHANGED <<aborted, InstrStmts, VarDecls, AllocaDecls, NVar>>

\* createAST on a PHI: the instruction gets a variable and no statement
createASTPHIWhenSerialized ==
  /\ pc' = pc + 1
  /\ IF NumUses(pc) > 0 /\ F[pc].ToSerialize
     THEN /\ VarDecls' = [i \in DOMAIN VarDecls \cup {pc} |->
                            IF i = pc THEN createVarDecl(F[pc], NVar) ELSE VarDecls[i]]
          /\ NVar' = NVar + 1
     ELSE UNCHANGED <<VarDecls, NVar>>
  /\ UNCHANGED <<aborted, InstrStmts, AllocaDecls>>

createASTPHI ==
  /\ pc' = pc + 1
  /\ VarDecls' = [i \in DOMAIN VarDecls \cup {pc} |->
                    IF i = pc THEN createVarDecl(F[pc], NVar) ELSE VarDecls[i]]
  /\ NVar' = NVar + 1
  /\ UNCHANGED <<aborted, InstrStmts, AllocaDecls>>

\* NVar after the array of an alloca is named: the arrays take their number
\* from the counter of the variables
NVarAfterArrayOwnCounter(I, N) == N

NVarAfterArray(I, N) == IF I.Opcode = "Alloca" THEN N + 1 ELSE N

\* one turn of the inner loop of StmtBuilder::createAST, on the instruction
\* at pc
createAST ==
  /\ ~aborted
  /\ pc \in DOMAIN F
  /\ LET I == F[pc]
         Lab == LabelsAt(pc)
     IN  /\ BBLabelDecls' = Lab.Labels
         /\ BBId' = Lab.BBId
         /\ IF I.Opcode = "Br"
            THEN createASTBranch
            ELSE IF I.Opcode = "PHI"
            THEN createASTPHI
            ELSE IF I.Opcode = "Alloca" /\ (~I.Static \/ AboveMaxUnsigned(I.SizeInBits))
            THEN /\ aborted' = TRUE
                 /\ UNCHANGED <<pc, InstrStmts, VarDecls, AllocaDecls, NVar>>
            ELSE \E Decls \in
                    {IF I.Opcode = "Alloca"
                     THEN [i \in DOMAIN AllocaDecls \cup {pc} |->
                             IF i = pc
                             THEN [D |-> "VarDecl", Name |-> <<"var_", NVar>>,
                                   Ty |-> ConstantArray(CharTy, I.SizeInBits)]
                             ELSE AllocaDecls[i]]
                     ELSE AllocaDecls} :
                 \E N1 \in {NVarAfterArray(I, NVar)} :
                   /\ AllocaDecls' = Decls
                   /\ \E NewStmt \in {buildStmt(pc, Decls)} :
                        IF NewStmt = Aborted \/ NewStmt = NullStmt
                        THEN /\ aborted' = TRUE
                             /\ NVar' = N1
                             /\ UNCHANGED <<pc, InstrStmts, VarDecls>>
                        ELSE /\ InstrStmts' = [i \in DOMAIN InstrStmts \cup {pc} |->
                                                 IF i = pc THEN NewStmt ELSE InstrStmts[i]]
                             /\ IF NumUses(pc) > 0 /\ I.ToSerialize
                                THEN /\ VarDecls' = [i \in DOMAIN VarDecls \cup {pc} |->
                                                       IF i = pc THEN createVarDecl(I, N1)
                                                       ELSE VarDecls[i]]
                                     /\ NVar' = N1 + 1
                                ELSE /\ VarDecls' = VarDecls
                                     /\ NVar' = N1
                             /\ pc' = pc + 1
                             /\ aborted' = FALSE
  /\ UNCHANGED <<graphVars, F>>

(***************************************************************************)
(* Statement builder: the functions it is run on                           *)
(***************************************************************************)
\* an instruction of F: opcode, result type and operands; Pred is the
\* predicate of an ICmp, Callee the called function of a Call, ToSerialize
\* says whether the instruction is in the set ToSerialize, NewBB whether it
\* is the first of its basic block, Static and SizeInBits describe an Alloca
Inst(Opcode, Ty, Ops) ==
  [Opcode |-> Opcode, Ty |-> Ty, Ops |-> Ops, Pred |-> "", Callee |-> "",
   ToSerialize |-> FALSE, NewBB |-> FALSE, Static |-> TRUE, SizeInBits |-> <<0, 0>>]

\* the instruction I in, or out of, ToSerialize
Serialized(I, B) == [I EXCEPT !.ToSerialize = B]

\* the llvm::Type of a value among the instructions P
TypeOfIn(P, V) == IF V.V = "Instruction" THEN P[V.Idx].Ty ELSE V.Ty

\* the first instruction of a function starts its entry block
Entry(Body) == [Body EXCEPT ![1].NewBB = TRUE]

\* the sequences over S of at most N elements
RECURSIVE SeqsUpTo(_, _)
SeqsUpTo(S, N) ==
  IF N = 0 THEN {<< >>}
  ELSE LET Shorter == SeqsUpTo(S, N - 1)
       IN  Shorter \cup {Append(q, x) : q \in Shorter, x \in S}

\* the arguments of the function: x and y of 32 bits, z of 64 bits, the
\* pointer p and the flag c
ArgX == Argument(0, IntegerType(32))
ArgY == Argument(1, IntegerType(32))
ArgZ == Argument(2, IntegerType(64))
ArgP == Argument(3, PointerType(8))
ArgC == Argument(4, IntegerType(1))
\* and b of 8 bits, h of 16 bits, q of 128 bits
ArgB == Argument(5, IntegerType(8))
ArgH == Argument(6, IntegerType(16))
ArgQ == Argument(7, IntegerType(128))

\* instructions that come before the one under study: a sum that is
\* serialized, a sum that is not, a load from a global and a store to it
Prefixes ==
  SeqsUpTo({Serialized(Inst("Add", IntegerType(32), <<ArgX, ArgY>>), TRUE),
            Inst("Add", IntegerType(32), <<ArgX, ArgY>>),
            Inst("Load", IntegerType(32), <<GlobalVariable("g", 32)>>),
            Inst("Store", VoidType, <<ArgX, GlobalVariable("g", 32)>>)},
           MaxPrefix)

\* the instructions of P that have a value, as operands
ValuesIn(P) == {Instruction(j) : j \in {k \in DOMAIN P : P[k].Ty # VoidType}}

\* the functions made of a prefix P, one of the instructions Mains[P] and,
\* or not, a return: of the instruction's value if it has one, of nothing
\* after a store
FunctionsOfOver(Ps, Mains) ==
  UNION {UNION {{Entry(Append(P, M))}
                  \cup (IF M.Ty # VoidType
                        THEN {Entry(Append(P, M)
                                \o <<Inst("Ret", VoidType, <<Instruction(Len(P) + 1)>>)>>)}
                        ELSE IF M.Opcode = "Store"
                        THEN {Entry(Append(P, M) \o <<Inst("Ret", VoidType, << >>)>>)}
                        ELSE {}) :
                M \in Mains[P]} :
         P \in Ps}

\* the builder before createAST, on one of the functions Fs
InitBuilder(Fs) ==
  /\ NID = 0 /\ Layouts = {}
  /\ Successors = << >> /\ Predecessors = << >> /\ L = << >>
  /\ TypePtrToLayoutMap = << >> /\ LayoutToTypePtrsMap = << >>
  /\ LinkTags = << >>
  /\ aborted = FALSE
  /\ pass = [Phase |-> "build", Keys |-> {}, Linked |-> {}]
  /\ F \in Fs
  /\ pc = 1
  /\ InstrStmts = << >> /\ VarDecls = << >>
  /\ AllocaDecls = << >> /\ BBLabelDecls = << >>
  /\ NVar = 0 /\ BBId = 0

\* the operands an instruction after the prefix P can take: x, y, a constant
\* and the instructions of P
OperandsAfter(P) ==
  {ArgX, ArgY, ConstantInt(32, 1)} \cup ValuesIn(P)

\* the binary operators, each ICmp with one of its predicates
ICmpPredicates ==
  {"ICMP_EQ", "ICMP_NE", "ICMP_UGT", "ICMP_UGE", "ICMP_ULT", "ICMP_ULE",
   "ICMP_SGT", "ICMP_SGE", "ICMP_SLT", "ICMP_SLE"}

BinaryInsts(P) ==
  LET Arith == {Inst(Opc, IntegerType(32), <<A, ArgY>>) :
                  Opc \in BinaryOpcodes \ {"ICmp"}, A \in OperandsAfter(P)}
      Cmp == {[Inst("ICmp", IntegerType(1), <<A, ArgY>>) EXCEPT !.Pred = Pr] :
                Pr \in ICmpPredicates, A \in OperandsAfter(P)}
  IN  {Serialized(I, B) : I \in Arith \cup Cmp, B \in BOOLEAN}

\* the values a binary operator is given in the functions below: for each
\* type an argument and, for the integers of 8 bits and more, a constant
OperandsOfType(T) ==
  {A \in {ArgC, ArgB, ArgH, ArgX, ArgZ, ArgQ, ArgP} : A.Ty = T}
    \cup (IF T.T = "Integer" /\ T.W >= 8 THEN {ConstantInt(T.W, 1)} ELSE {})
    \cup (IF T.T = "Pointer" THEN {ConstantPointerNull(T.W)} ELSE {})

OperandTypes ==
  {IntegerType(W) : W \in {1, 8, 16, 32, 64, 128}} \cup {PointerType(8)}

\* the binary operators on the operand pairs Pairs: the arithmetic ones have
\* an integer on the left and its type as result, a comparison takes
\* pointers too and gives an i1
BinaryOn(Pairs) ==
  {Inst(Opc, Pr[1].Ty, <<Pr[1], Pr[2]>>) :
     Opc \in BinaryOpcodes \ {"ICmp"}, Pr \in {Q \in Pairs : Q[1].Ty.T = "Integer"}}
    \cup {[Inst("ICmp", IntegerType(1), <<Pr[1], Pr[2]>>) EXCEPT !.Pred = P] :
            P \in ICmpPredicates, Pr \in Pairs}

\* the operand pairs of one type, as the IR has them
PairsOfOneType ==
  UNION {OperandsOfType(T) \X OperandsOfType(T) : T \in OperandTypes}

\* the operand pairs of any two types: getCastedBinaryOperands checks the
\* two types itself
PairsOfAnyTypes ==
  UNION {OperandsOfType(T) \X OperandsOfType(U) : T \in OperandTypes, U \in OperandTypes}

\* the functions of one binary operator on one of the pairs
FunctionsOn(Pairs) == {Entry(<<I>>) : I \in BinaryOn(Pairs)}

\* the functions of a binary operator after one of the prefixes Ps
FunctionsBinary(Ps) == FunctionsOfOver(Ps, [P \in Ps |-> BinaryInsts(P)])

\* the addresses a load or a store of W bits can take: a pointer argument, a
\* global, the null pointer and integers converted to pointers
Addresses(W) ==
  {ConstantPointerNull(W),
   ConstantExpr("IntToPtr", ConstantInt(64, 1), PointerType(W)),
   ConstantExpr("IntToPtr", ConstantInt(32, 1), PointerType(W))}
    \cup (IF W = 8 THEN {ArgP} ELSE {})
    \cup (IF W = 32 THEN {GlobalVariable("g", 32)} ELSE {})

\* loads and stores after the prefix P
MemoryInsts(P) ==
  LET Loads == {Inst("Load", IntegerType(W), <<A>>) : W \in {8}, A \in Addresses(8)}
                 \cup {Inst("Load", IntegerType(W), <<A>>) : W \in {32}, A \in Addresses(32)}
      Stored == {ArgX, ConstantInt(32, 1), ConstantInt(8, 1), ConstantInt(16, 1),
                 ConstantInt(64, 1), ConstantInt(128, 1)}
                  \cup ValuesIn(P)
      Stores == UNION {{Inst("Store", VoidType, <<S, A>>) : A \in Addresses(TypeOfIn(P, S).W)} :
                         S \in Stored}
  IN  {Serialized(I, B) : I \in Loads, B \in BOOLEAN} \cup Stores

\* casts after the prefix P
CastInsts(P) ==
  LET Ints == {ArgX} \cup ValuesIn(P)
      Casts ==
        {Inst("Trunc", IntegerType(32), <<ArgZ>>)}
          \cup {Inst("Trunc", IntegerType(8), <<A>>) : A \in Ints}
          \cup {Inst(Opc, IntegerType(64), <<A>>) : Opc \in {"ZExt", "SExt"}, A \in Ints}
          \cup {Inst("IntToPtr", PointerType(8), <<ArgZ>>)}
          \cup {Inst("IntToPtr", PointerType(32), <<A>>) : A \in Ints}
          \cup {Inst("PtrToInt", IntegerType(W), <<A>>) :
                  W \in {32, 64},
                  A \in {ArgP, GlobalVariable("g", 32), ConstantPointerNull(8)}}
          \cup {Inst("BitCast", PointerType(32), <<A>>) : A \in {ArgP, ConstantPointerNull(8)}}
          \cup {Inst("BitCast", PointerType(8), <<GlobalVariable("g", 32)>>),
                Inst("BitCast", IntegerType(32), <<ArgX>>)}
  IN  {Serialized(I, B) : I \in Casts, B \in BOOLEAN}

\* calls after the prefix P: each callee with one of its operand lists
CallInsts(P) ==
  LET Operands == {ArgX, ConstantInt(8, 1)} \cup ValuesIn(P)
      Calls == {[Inst("Call", FunctionDecls[Callee].Ret, Ops) EXCEPT !.Callee = Callee] :
                  Callee \in DOMAIN FunctionDecls \ {"self"},
                  Ops \in SeqsUpTo(Operands, MaxOperands)}
  IN  {Serialized(I, B) : I \in Calls, B \in BOOLEAN}

\* the other instructions: a select, allocas, unreachable, a branch, a PHI, a
\* switch and unsupported ones (floating point, GEP, atomic, VAArg, aggregate,
\* exception)
OtherInsts(P) ==
  LET Allocas == {[Inst("Alloca", PointerType(8), << >>) EXCEPT
                     !.Static = St, !.SizeInBits = Sz] :
                    St \in BOOLEAN,
                    Sz \in {<<0, 0>>, <<0, 64>>, <<65535, 65535>>, <<65536, 0>>}}
      Selects == {Inst("Select", IntegerType(32), <<ArgC, A, ArgY>>) :
                    A \in {ArgX} \cup ValuesIn(P)}
      Valued == Allocas \cup Selects
                  \cup {Inst("PHI", IntegerType(32), <<ArgX, Instruction(Len(P) + 1)>>)}
  IN  {Serialized(I, B) : I \in Valued, B \in BOOLEAN}
        \cup {Inst("Unreachable", VoidType, << >>),
              Inst("Br", VoidType, << >>),
              Inst("Br", VoidType, <<ArgC>>),
              Inst("Switch", VoidType, <<ArgX>>),
              Inst("FAdd", FloatType, <<ConstantFP, ConstantFP>>),
              Inst("GetElementPtr", PointerType(8), <<ArgP, ArgX>>),
              Inst("AtomicRMW", IntegerType(32), <<GlobalVariable("g", 32), ArgX>>),
              Inst("VAArg", IntegerType(32), <<ArgP>>),
              Inst("ExtractValue", IntegerType(32), <<ArgX>>),
              Inst("Invoke", VoidType, << >>)}

\* the functions of one of these instructions after one of the prefixes Ps
FunctionsAny(Ps) ==
  FunctionsOfOver(Ps, [P \in Ps |->
                        MemoryInsts(P) \cup CastInsts(P) \cup CallInsts(P) \cup OtherInsts(P)])

\* what comes before a load or a store through an alloca: nothing, or the
\* alloca of an i8 or of an i32, in ToSerialize or not
AllocaPrefixes ==
  {<< >>}
    \cup {<<Serialized([Inst("Alloca", PointerType(W), << >>) EXCEPT !.SizeInBits = <<0, W>>],
                       B)>> :
            W \in {8, 32}, B \in BOOLEAN}

\* the loads and stores after such a prefix P, by their address: a pointer
\* argument, a global, the null pointer, integer constants converted to
\* pointers, the alloca of P, and values whose expression is an integer of
\* 32, 64 and 128 bits, which the code checks for
AddressedInsts(P) ==
  LET Integers == {ArgX, ArgZ, ArgQ}
      Through(W) == Addresses(W) \cup Integers \cup {A \in ValuesIn(P) : P[A.Idx].Ty.W = W}
      Loads == UNION {{Inst("Load", IntegerType(W), <<A>>) : A \in Through(W)} : W \in {8, 32}}
      Stores == UNION {{Inst("Store", VoidType, <<S, A>>) : A \in Through(S.Ty.W)} :
                         S \in {ArgX, ArgB}}
  IN  {Serialized(I, B) : I \in Loads, B \in BOOLEAN} \cup Stores

\* the functions of one load or store after one of these prefixes
FunctionsAddressed == FunctionsOfOver(AllocaPrefixes, [P \in AllocaPrefixes |-> AddressedInsts(P)])

\* the instructions that can follow the body P in a function of several
\* basic blocks: an alloca, a PHI that is or is not its own operand, a sum of
\* x or of an earlier value, a load through an earlier alloca, a branch
BlockInsts(P) ==
  LET Ints == {ArgX} \cup {Instruction(j) : j \in {k \in DOMAIN P : P[k].Ty = IntegerType(32)}}
      Ptrs == {Instruction(j) : j \in {k \in DOMAIN P : P[k].Opcode = "Alloca"}}
      Valued == {[Inst("Alloca", PointerType(8), << >>) EXCEPT !.SizeInBits = <<0, 64>>],
                 Inst("PHI", IntegerType(32), <<ArgX, Instruction(Len(P) + 1)>>),
                 Inst("PHI", IntegerType(32), <<ArgX, ArgY>>)}
                  \cup {Inst("Add", IntegerType(32), <<A, ArgY>>) : A \in Ints}
  IN  {Serialized(I, B) : I \in Valued, B \in BOOLEAN}
        \cup {Inst("Load", IntegerType(8), <<A>>) : A \in Ptrs}
        \cup {Inst("Br", VoidType, << >>)}

\* the bodies of N instructions at most, each instruction one that can follow
\* the ones before it
RECURSIVE Bodies(_)
Bodies(N) ==
  IF N = 0 THEN {<< >>}
  ELSE LET Shorter == Bodies(N - 1)
       IN  Shorter \cup UNION {{Append(P, I) : I \in BlockInsts(P)} : P \in Shorter}

\* the basic blocks of a body: a block starts at the first instruction and
\* after each branch
Blocks(Body) ==
  [k \in DOMAIN Body |->
     [Body[k] EXCEPT !.NewBB = (k = 1 \/ Body[k - 1].Opcode = "Br")]]

\* the functions of several basic blocks, of N instructions at most, in
\* reverse post-order of their blocks
FunctionsBlocks(N) == {Blocks(Body) : Body \in Bodies(N) \ {<< >>}}

(***************************************************************************)
(* Specification                                                           *)
(***************************************************************************)
\* the graph under its clients, the nodes' layouts left as created
Next ==
  \/ \E k \in Keys : GetOrCreate(k)
  \/ \E k \in Keys : Get(k)
  \/ \E a, b \in NodeArgs : AddEquality(a, b)
  \/ \E a, b \in NodeArgs : AddInheritance(a, b)
  \/ \E a, b \in NodeArgs, oe \in OEs : AddInstance(a, b, oe)
  \/ \E a, b \in Layouts : Merge(a, b)
  \/ \E n \in Layouts : Remove(n)

Spec == Init /\ [][Next]_vars

\* the graph under clients that also write the nodes' layouts
NextLayout ==
  \/ \E k \in Keys : GetOrCreate(k)
  \/ \E a, b \in NodeArgs : AddEquality(a, b)
  \/ \E a, b \in NodeArgs : AddInheritance(a, b)
  \/ \E n \in Layouts, w \in Writes : SetLayout(n, w[1], w[2])
  \/ \E a, b \in Layouts : Merge(a, b)
  \/ \E n \in Layouts : Remove(n)

SpecLayout == Init /\ [][NextLayout]_vars

\* the graph under clients that insert instance links of several offset
\* expressions
NextTags ==
  \/ \E k \in Keys : GetOrCreate(k)
  \/ \E a, b \in NodeArgs : AddInheritance(a, b)
  \/ \E a, b \in NodeArgs, oe \in OEsTags : AddInstance(a, b, oe)

SpecTags == Init /\ [][NextTags]_vars

\* the graph under clients that create nodes, insert links and merge nodes
NextLinks ==
  \/ \E k \in Keys : GetOrCreate(k)
  \/ \E a, b \in NodeArgs : AddEquality(a, b)
  \/ \E a, b \in NodeArgs : AddInheritance(a, b)
  \/ \E a, b \in NodeArgs, oe \in OEs : AddInstance(a, b, oe)
  \/ \E a, b \in Layouts : Merge(a, b)

SpecLinks == Init /\ [][NextLinks]_vars

\* a graph is built by its clients, then normalized
Build ==
  /\ pass.Phase = "build"
  /\ \/ \E k \in Keys : GetOrCreate(k)
     \/ \E a, b \in NodeArgs : AddEquality(a, b)
     \/ \E a, b \in NodeArgs : AddInheritance(a, b)
     \/ \E a, b \in NodeArgs, oe \in OEs : AddInstance(a, b, oe)

NextNorm ==
  \/ Build
  \/ StartNorm
  \/ \E a, b \in Layouts : NormStep(a, b)
  \/ FinishNorm

SpecNorm == Init /\ [][NextNorm]_vars

\* the statement builder run on a function whose instruction under study is
\* a binary operator
InitBinary == InitBuilder(FunctionsBinary(Prefixes))

SpecBinary == InitBinary /\ [][createAST]_vars

\* the statement builder run on a function whose instruction under study is
\* a load, a store, a cast, a call or one of the other instructions
InitAny == InitBuilder(FunctionsAny(Prefixes))

SpecAny == InitAny /\ [][createAST]_vars

\* the statement builder run on a binary operator whose operands have one
\* type, of any width
InitWidths == InitBuilder(FunctionsOn(PairsOfOneType))

SpecWidths == InitWidths /\ [][createAST]_vars

\* the statement builder run on a binary operator whose operands have any
\* two types
InitOperands == InitBuilder(FunctionsOn(PairsOfAnyTypes))

SpecOperands == InitOperands /\ [][createAST]_vars

\* the statement builder run on a function of one load or store
InitMemory == InitBuilder(FunctionsAddressed)

SpecMemory == InitMemory /\ [][createAST]_vars

\* the statement builder run on a function of several basic blocks
InitBlocks == InitBuilder(FunctionsBlocks(MaxBody))

SpecBlocks == InitBlocks /\ [][createAST]_vars

(***************************************************************************)
(* Properties of the links                                                 *)
(***************************************************************************)
\* the tag handles in use
Handles == DOMAIN LinkTags

\* the links from a to b whose tag has the value Tag, in the links G
LinksOf(G, a, b, Tag) == {e \in G.Succ[a] : e[1] = b /\ G.Tags[e[2]] = Tag}
BackLinksOf(G, a, b, Tag) == {e \in G.Pred[b] : e[1] = a /\ G.Tags[e[2]] = Tag}

\* C1: successors and predecessors are mirrored in both directions: (T, h) is
\* in S.Successors if and only if (S, h) is in T.Predecessors, for all nodes
\* S, T of the graph and every tag handle h, after any sequence of
\* get_or_create, add_*, merge and remove.
C1_Mirrored ==
  \A S \in Layouts, T \in Layouts, h \in Handles :
    (<<T, h>> \in Successors[S]) <=> (<<S, h>> \in Predecessors[T])

\* a merged node (two keys) that has links, in a graph that lost a node
C1_Witness ==
  \E n \in Layouts :
    /\ Cardinality(LayoutToTypePtrsMap[n]) >= 2
    /\ Successors[n] # {}
    /\ Predecessors[n] # {}

\* the result of a link insertion that does nothing
Dropped(G) == [G |-> G, T |-> NullTag, New |-> FALSE]

\* C2: add_equality, add_inheritance and add_instance with a null endpoint or
\* with source equal to target return (no tag, false) and leave links and tags
\* as they are; no node has a link to itself.
C2_NullAndSelfDropped ==
  /\ \A a \in NodeArgs, b \in NodeArgs :
       (a = NullNode \/ b = NullNode \/ a = b) =>
         /\ addEqualityLink(Graph, a, b) =
              [G |-> Graph, T |-> NullTag, New |-> FALSE, InSync |-> TRUE]
         /\ addInheritanceLink(Graph, a, b) = Dropped(Graph)
         /\ \A oe \in OEsTags : addInstanceLink(Graph, a, b, oe) = Dropped(Graph)
  /\ \A n \in Layouts, h \in Handles :
       <<n, h>> \notin Successors[n] /\ <<n, h>> \notin Predecessors[n]

\* two linked nodes: calls with a null or a repeated endpoint have links to spoil
C2_Witness ==
  \E a \in Layouts, b \in Layouts :
    a # b /\ Successors[a] # {} /\ Successors[b] # {} /\ Len(LinkTags) >= 2

\* C3: for distinct nodes a, b and an offset expression oe, add_instance(a, b,
\* oe) returns New = TRUE when no a-to-b link with that tag is there, every
\* later add_instance(a, b, oe) returns New = FALSE and the same handle, and
\* there is exactly one a-to-b link with that tag in a.Successors and in
\* b.Predecessors.
C3_InstanceIdempotent ==
  \A a \in Layouts, b \in Layouts, oe \in OEsTags :
    a # b =>
      \A First \in {addInstanceLink(Graph, a, b, oe)} :
      \A Later \in {addInstanceLink(First.G, a, b, oe)} :
          /\ First.New = (LinksOf(Graph, a, b, instanceTag(oe)) = {})
          /\ First.T # NullTag
          /\ First.G.Tags[First.T] = instanceTag(oe)
          /\ Later.New = FALSE /\ Later.T = First.T /\ Later.G = First.G
          /\ LinksOf(First.G, a, b, instanceTag(oe)) = {<<b, First.T>>}
          /\ BackLinksOf(First.G, a, b, instanceTag(oe)) = {<<a, First.T>>}

\* two instance links between the same two nodes, of offset expressions that
\* differ in a trip count only
C3_Witness ==
  \E a \in Layouts, b \in Layouts :
    /\ a # b
    /\ \E e \in Successors[a], f \in Successors[a] :
         /\ e[1] = b /\ f[1] = b /\ e[2] # f[2]
         /\ LinkTags[e[2]].Kind = LK_Instance /\ LinkTags[f[2]].Kind = LK_Instance
         /\ LinkTags[e[2]].OE.Strides = LinkTags[f[2]].OE.Strides
         /\ LinkTags[e[2]].OE.Strides # << >>

\* C4: for distinct nodes a and b, add_equality(a, b) inserts an Equality link
\* in both directions, and add_equality(a, b) followed by add_equality(b, a)
\* gives the successor and predecessor sets of either call alone.
C4_EqualitySymmetric ==
  \A a \in Layouts, b \in Layouts :
    a # b =>
      \A AB \in {addEqualityLink(Graph, a, b)} :
      \A BA \in {addEqualityLink(Graph, b, a)} :
      \A Both \in {addEqualityLink(AB.G, b, a)} :
          /\ AB.T # NullTag /\ AB.G.Tags[AB.T] = equalityTag
          /\ <<b, AB.T>> \in AB.G.Succ[a] /\ <<a, AB.T>> \in AB.G.Pred[b]
          /\ <<a, AB.T>> \in AB.G.Succ[b] /\ <<b, AB.T>> \in AB.G.Pred[a]
          /\ Both.G.Succ = AB.G.Succ /\ Both.G.Pred = AB.G.Pred
          /\ Both.G.Succ = BA.G.Succ /\ Both.G.Pred = BA.G.Pred

\* three nodes, two of them joined by an equality link and a third one linked
\* to one of them
C4_Witness ==
  \E a \in Layouts, b \in Layouts, c \in Layouts, h \in Handles :
    /\ a # b /\ c # a /\ c # b
    /\ LinkTags[h] = equalityTag
    /\ <<b, h>> \in Successors[a] /\ <<a, h>> \in Successors[b]
    /\ Successors[c] # {}

\* tags that differ in the kind only, the offset only, the strides only, the
\* trip counts only, and in the number of dimensions
TagsCompared ==
  { equalityTag, inheritanceTag,
    instanceTag(OffsetExpression(0)),
    instanceTag(OffsetExpression(8)),
    instanceTag([Offset |-> 0, Strides |-> <<4>>, TripCounts |-> << <<>> >>]),
    instanceTag([Offset |-> 0, Strides |-> <<4>>, TripCounts |-> << <<2>> >>]),
    instanceTag([Offset |-> 0, Strides |-> <<8>>, TripCounts |-> << <<2>> >>]),
    instanceTag([Offset |-> 0, Strides |-> <<4, 4>>,
                 TripCounts |-> << <<2>>, <<>> >>]) }

\* the ordering of the tag set tells two tags apart exactly when they differ
\* in the kind or in (Offset, Strides, TripCounts)
C5_OrderIsStructural ==
  \A s \in TagsCompared, t \in TagsCompared :
    /\ (TypeLinkTagCompare(s, t) = 0) <=> (s = t)
    /\ TypeLinkTagLess(s, t) <=> (TypeLinkTagCompare(t, s) > 0)

\* one tag per value, every link carries a handle of the set, links of equal
\* tag values carry the same handle, and an insertion returns the handle of
\* the value: the one there, or a new one, the others kept
C5_OneHandlePerValue ==
  /\ \A i \in Handles, j \in Handles : LinkTags[i] = LinkTags[j] => i = j
  /\ \A n \in Layouts, m \in Layouts :
       \A e \in Successors[n] \cup Predecessors[n],
          f \in Successors[m] \cup Predecessors[m] :
         /\ e[2] \in Handles
         /\ LinkTags[e[2]] = LinkTags[f[2]] => e[2] = f[2]
  /\ \A t \in {equalityTag, inheritanceTag} \cup {instanceTag(oe) : oe \in OEsTags} :
       \A R \in {LinkTagsInsert(LinkTags, t)} :
         /\ R.It \in DOMAIN R.Tags /\ R.Tags[R.It] = t
         /\ \A h \in Handles : R.Tags[h] = LinkTags[h]
         /\ R.Inserted = (\A h \in Handles : LinkTags[h] # t)
         /\ ~R.Inserted => R.Tags = LinkTags

\* a handle once given names the same tag in every later state
C5_HandlesStable ==
  \A h \in Handles : h \in DOMAIN LinkTags' /\ LinkTags'[h] = LinkTags[h]

\* C5: link tags are interned: the tag set holds at most one tag per (kind,
\* offset expression) value, links inserted with structurally equal tags
\* carry the same handle, inserting a present tag returns its handle, and a
\* handle stays valid and unchanged for the life of the graph.
C5_Interned ==
  /\ C5_OrderIsStructural
  /\ []C5_OneHandlePerValue
  /\ [][C5_HandlesStable]_vars

\* the three kinds interned, two links between different nodes sharing a
\* handle, after a node has gone
C5_Witness ==
  /\ Len(LinkTags) = 3
  /\ NID > Cardinality(Layouts)
  /\ \E a \in Layouts, b \in Layouts :
       \E e \in Successors[a], f \in Successors[b] :
         a # b /\ e[1] # f[1] /\ e[2] = f[2]

(***************************************************************************)
(* Properties of the nodes and keys                                        *)
(***************************************************************************)
\* what get_or_create answers in a state: a present key gives its node, not
\* created; an absent key gives a node the graph does not own yet
C6_Answer ==
  \A k \in Keys :
    \A R \in {getOrCreateLayoutType(k)} :
      IF k \in DOMAIN TypePtrToLayoutMap
      THEN /\ R = [Node |-> TypePtrToLayoutMap[k], Created |-> FALSE]
           /\ R.Node \in Layouts
           /\ k \in LayoutToTypePtrsMap[R.Node]
           /\ getLayoutType(k) = R.Node
      ELSE /\ R.Created
           /\ R.Node \notin Layouts
           /\ \A n \in Layouts : n < R.Node
           /\ getLayoutType(k) = NullNode

\* what a step does to ids and keys: ids are given in increasing order, one
\* per created node, and a key stays with its node while the node lives
C6_Step ==
  /\ NID' >= NID
  /\ \A n \in Layouts' \ Layouts :
       /\ n = NID /\ NID' = NID + 1
       /\ \E k \in Keys : /\ k \notin DOMAIN TypePtrToLayoutMap
                           /\ getOrCreateLayoutType(k).Created
                           /\ k \in DOMAIN TypePtrToLayoutMap'
                           /\ TypePtrToLayoutMap'[k] = n
  /\ \A k \in DOMAIN TypePtrToLayoutMap :
       TypePtrToLayoutMap[k] \in Layouts' =>
         k \in DOMAIN TypePtrToLayoutMap' /\ TypePtrToLayoutMap'[k] = TypePtrToLayoutMap[k]

\* C6: get_or_create(key) returns (node, created = TRUE) with a fresh id, above
\* every id given before, when the key has no node, and (the same node,
\* created = FALSE) on every later call while that node is neither merged
\* away nor removed; no created node takes the id of a live node, and
\* get(key) creates nothing.
C6_GetOrCreate ==
  /\ []C6_Answer
  /\ []TypeOK
  /\ [][C6_Step]_vars

\* a key whose node was removed got a new node, with the newest id
C6_Witness ==
  /\ NID = MaxNID
  /\ Cardinality(Layouts) = 1
  /\ \E k \in DOMAIN TypePtrToLayoutMap : TypePtrToLayoutMap[k] = NID - 1
  /\ Cardinality(DOMAIN TypePtrToLayoutMap) = 1

(***************************************************************************)
(* Properties of the checks                                                *)
(***************************************************************************)
\* the inheritance links as pairs <<source, target>>
InheritanceLinks ==
  {<<a, b>> \in Layouts \X Layouts :
     \E h \in Handles : LinkTags[h].Kind = LK_Inheritance /\ <<b, h>> \in Successors[a]}

\* C10: inheritance_tree is true exactly when every node has at most one
\* inheritance predecessor, inheritance_dag exactly when the inheritance
\* links form no cycle; with exactly the inheritance links A to B, C to B and
\* A to C, inheritance_dag is true and inheritance_tree is false.
C10_InheritanceChecks ==
  \A Links \in {InheritanceLinks} :
    /\ verifyInheritanceTree <=>
         \A p \in Links, q \in Links : p[2] = q[2] => p[1] = q[1]
    /\ verifyInheritanceDAG <=>
         \A Reach \in {Closure(Links)} : \A n \in Layouts : <<n, n>> \notin Reach
    /\ \A A \in Layouts, B \in Layouts, C \in Layouts :
         Links = {<<A, B>>, <<C, B>>, <<A, C>>} /\ A # B /\ B # C /\ A # C
           => verifyInheritanceDAG /\ ~verifyInheritanceTree

\* the three links of the scenario
C10_Witness ==
  \E A \in Layouts, B \in Layouts, C \in Layouts :
    /\ A # B /\ B # C /\ A # C
    /\ InheritanceLinks = {<<A, B>>, <<C, B>>, <<A, C>>}

\* an inheritance cycle and, elsewhere, a node of two inheritance predecessors
\* are reachable: both checks have graphs to reject
C10_WitnessCycle ==
  \E A \in Layouts, B \in Layouts :
    A # B /\ <<A, B>> \in InheritanceLinks /\ <<B, A>> \in InheritanceLinks

(***************************************************************************)
(* Properties of merge and removal                                         *)
(***************************************************************************)
\* the link e with the endpoint From renamed to Into
Renamed(e, From, Into) == <<IF e[1] = From THEN Into ELSE e[1], e[2]>>

\* the keys that map to node n
KeysTo(Map, n) == {k \in DOMAIN Map : Map[k] = n}

\* no node left names n in a neighbor set, and no key maps to it
Forgotten(n) ==
  /\ n \notin Layouts'
  /\ n \notin DOMAIN Successors' /\ n \notin DOMAIN Predecessors'
  /\ n \notin DOMAIN L' /\ n \notin DOMAIN LayoutToTypePtrsMap'
  /\ \A m \in Layouts' :
       \A e \in Successors'[m] \cup Predecessors'[m] : e[1] # n /\ e[1] \in Layouts'
  /\ KeysTo(TypePtrToLayoutMap', n) = {}

\* what merge(From, Into) leaves
C7_After(From, Into) ==
  /\ Layouts' = Layouts \ {From}
  /\ Forgotten(From)
  /\ DOMAIN TypePtrToLayoutMap' = DOMAIN TypePtrToLayoutMap
  /\ \A k \in DOMAIN TypePtrToLayoutMap :
       TypePtrToLayoutMap'[k] =
         IF TypePtrToLayoutMap[k] = From THEN Into ELSE TypePtrToLayoutMap[k]
  /\ LayoutToTypePtrsMap'[Into] =
       LayoutToTypePtrsMap[Into] \cup LayoutToTypePtrsMap[From]
  /\ KeysTo(TypePtrToLayoutMap', Into) = LayoutToTypePtrsMap'[Into]
  /\ \A m \in Layouts' \ {Into} :
       /\ Successors'[m] = {Renamed(e, From, Into) : e \in Successors[m]}
       /\ Predecessors'[m] = {Renamed(e, From, Into) : e \in Predecessors[m]}
       /\ LayoutToTypePtrsMap'[m] = LayoutToTypePtrsMap[m]
       /\ L'[m] = L[m]
  /\ Successors'[Into] =
       {e \in Successors[Into] \cup Successors[From] : e[1] \notin {From, Into}}
  /\ Predecessors'[Into] =
       {e \in Predecessors[Into] \cup Predecessors[From] : e[1] \notin {From, Into}}
  /\ L'[Into].Accesses = L[Into].Accesses \cup L[From].Accesses
  /\ L'[Into].Size >= L[Into].Size /\ L'[Into].Size >= L[From].Size
  /\ L'[Into].Size \in {L[Into].Size, L[From].Size}
  /\ LinkTags' = LinkTags

C8_After(N) ==
  /\ Layouts' = Layouts \ {N}
  /\ Forgotten(N)
  /\ DOMAIN TypePtrToLayoutMap' = DOMAIN TypePtrToLayoutMap \ KeysTo(TypePtrToLayoutMap, N)
  /\ \A k \in DOMAIN TypePtrToLayoutMap' : TypePtrToLayoutMap'[k] = TypePtrToLayoutMap[k]
  /\ \A m \in Layouts' :
       /\ Successors'[m] = {e \in Successors[m] : e[1] # N}
       /\ Predecessors'[m] = {e \in Predecessors[m] : e[1] # N}
       /\ LayoutToTypePtrsMap'[m] = LayoutToTypePtrsMap[m]
       /\ L'[m] = L[m]
  /\ LinkTags' = LinkTags

\* C8: after remove(n) on a live node, n is not owned by the graph, no node
\* left has n in its successors or predecessors, no key maps to n and n has
\* no entry in the node-to-keys map; every link not incident to n, every
\* other node's accesses and size and every key of another node are unchanged.
C8_Remove ==
  [][\A N \in Layouts : Remove(N) => C8_After(N)]_vars

\* a node was removed (a key is gone), and the two nodes left are linked and
\* one holds accesses
C8_Witness ==
  /\ Cardinality(Layouts) = 2
  /\ NID = 3
  /\ Cardinality(DOMAIN TypePtrToLayoutMap) = 2
  /\ \E n \in Layouts : Successors[n] # {}
  /\ \E n \in Layouts : L[n].Accesses # {}

(***************************************************************************)
(* Properties of the equality normalization                                *)
(***************************************************************************)
\* the keys j and k named nodes joined by a chain of equality links when the
\* pass started
JoinedAtStart(j, k) == j = k \/ <<j, k>> \in Closure(pass.Linked)

\* C9: for a graph built by get_or_create and add_* operations, after the
\* equality normalization (merging every pair of nodes joined by an equality
\* link until none is left) no equality link remains and every original key
\* resolves to a live node; in particular, nodes A, B, C with
\* add_equality(A, B) and add_equality(B, C) collapse into a single node
\* that holds all three original keys.
C9_Normalized ==
  /\ pass.Phase # "build" =>
       \A k \in pass.Keys :
         k \in DOMAIN TypePtrToLayoutMap /\ TypePtrToLayoutMap[k] \in Layouts
  /\ pass.Phase = "done" =>
       /\ verifyNoEquality
       /\ EqualityLinks = {}
       /\ \A j \in pass.Keys, k \in pass.Keys :
            JoinedAtStart(j, k) => TypePtrToLayoutMap[j] = TypePtrToLayoutMap[k]
       /\ \A A \in pass.Keys, B \in pass.Keys, C \in pass.Keys :
            (A # B /\ B # C /\ A # C /\ <<A, B>> \in pass.Linked /\ <<B, C>> \in pass.Linked)
              => LayoutToTypePtrsMap[TypePtrToLayoutMap[A]] = {A, B, C}

\* the pass is over on a graph built as A = B, B = C with no link between A
\* and C, and one node is left
C9_Witness ==
  /\ pass.Phase = "done"
  /\ \E A \in pass.Keys, B \in pass.Keys, C \in pass.Keys :
       /\ A # B /\ B # C /\ A # C
       /\ <<A, B>> \in pass.Linked /\ <<B, C>> \in pass.Linked
       /\ <<A, C>> \notin pass.Linked
  /\ Cardinality(Layouts) = 1

(***************************************************************************)
(* Iteration order                                                         *)
(***************************************************************************)
\* the relative addresses that an allocator can give the objects S: any
\* one-to-one placement
Placements(S) ==
  {f \in [S -> 1 .. Cardinality(S)] : \A x \in S, y \in S : f[x] = f[y] => x = y}

\* operator< of std::pair<LayoutTypeSystemNode *, const TypeLinkTag *>, with
\* the nodes at the addresses NA and the tags at the addresses TA
LinkBefore(e, f, NA, TA) ==
  \/ NA[e[1]] < NA[f[1]]
  \/ NA[e[1]] = NA[f[1]] /\ TA[e[2]] < TA[f[2]]

\* the links S as a NeighborsSet enumerates them, begin() to end()
RECURSIVE Enumerate(_, _, _)
Enumerate(S, NA, TA) ==
  IF S = {} THEN << >>
  ELSE LET First == CHOOSE e \in S : \A f \in S \ {e} : LinkBefore(e, f, NA, TA)
       IN  <<First>> \o Enumerate(S \ {First}, NA, TA)

\* the nodes S as Layouts enumerates them: LayoutTypeSystemNodePtrCompare
RECURSIVE EnumerateNodes(_, _)
EnumerateNodes(S, NA) ==
  IF S = {} THEN << >>
  ELSE LET First == CHOOSE n \in S : \A m \in S \ {n} : NA[n] < NA[m]
       IN  <<First>> \o EnumerateNodes(S \ {First}, NA)

\* C11: two runs that apply the same sequence of graph operations enumerate
\* each node's successors and predecessors, and the graph's nodes, in the
\* same order, whatever memory addresses the nodes and tags are given.
C11_SameOrder ==
  \A NA1 \in Placements(Layouts), NA2 \in Placements(Layouts) :
    \A TA1 \in Placements(Handles), TA2 \in Placements(Handles) :
      /\ EnumerateNodes(Layouts, NA1) = EnumerateNodes(Layouts, NA2)
      /\ \A n \in Layouts :
           /\ Enumerate(Successors[n], NA1, TA1) = Enumerate(Successors[n], NA2, TA2)
           /\ Enumerate(Predecessors[n], NA1, TA1) = Enumerate(Predecessors[n], NA2, TA2)

(***************************************************************************)
(* Properties of the statements                                            *)
(***************************************************************************)
\* the statement S without the parentheses and C-style casts around it
RECURSIVE Unwrapped(_)
Unwrapped(S) ==
  IF S.E \in {"ParenExpr", "CStyleCastExpr"} THEN Unwrapped(S.Sub) ELSE S

\* the C operator of a binary instruction I
OperatorOf(I) ==
  CASE I.Opcode = "Add" -> "BO_Add"
    [] I.Opcode = "Sub" -> "BO_Sub"
    [] I.Opcode = "Mul" -> "BO_Mul"
    [] I.Opcode = "And" -> "BO_And"
    [] I.Opcode = "Or" -> "BO_Or"
    [] I.Opcode = "Xor" -> "BO_Xor"
    [] I.Opcode \in {"UDiv", "SDiv"} -> "BO_Div"
    [] I.Opcode \in {"URem", "SRem"} -> "BO_Rem"
    [] I.Opcode = "Shl" -> "BO_Shl"
    [] I.Opcode \in {"LShr", "AShr"} -> "BO_Shr"
    [] I.Opcode = "ICmp" ->
         (CASE I.Pred = "ICMP_EQ" -> "BO_EQ"
            [] I.Pred = "ICMP_NE" -> "BO_NE"
            [] I.Pred \in {"ICMP_ULT", "ICMP_SLT"} -> "BO_LT"
            [] I.Pred \in {"ICMP_ULE", "ICMP_SLE"} -> "BO_LE"
            [] I.Pred \in {"ICMP_UGT", "ICMP_SGT"} -> "BO_GT"
            [] OTHER -> "BO_GE")

\* C15: the statement built for a binary instruction has the C operator of
\* the table: Add +, Sub -, Mul *, And &, Or |, Xor ^, UDiv and SDiv /, URem
\* and SRem %, Shl <<, LShr and AShr >>, and the comparisons ==, !=, <, <=,
\* >, >= for EQ, NE, LT, LE, GT, GE of either signedness.
C15_OperatorTable ==
  \A i \in DOMAIN InstrStmts :
    F[i].Opcode \in BinaryOpcodes =>
      /\ Unwrapped(InstrStmts[i]).E = "BinaryOperator"
      /\ Unwrapped(InstrStmts[i]).Opc = OperatorOf(F[i])

\* the operations that are signed: SDiv, SRem, AShr and an ICmp of a signed
\* predicate
IsSignedOperation(I) ==
  \/ I.Opcode \in {"SDiv", "SRem", "AShr"}
  \/ I.Opcode = "ICmp" /\ I.Pred \in SignedPredicates

\* the statement S is a binary operator in parentheses under a C-style cast
IsWrapped(S) ==
  /\ S.E = "CStyleCastExpr"
  /\ S.Sub.E = "ParenExpr"
  /\ S.Sub.Sub.E = "BinaryOperator"

\* C16 as stated: the statement of a binary instruction is wrapped in
\* parentheses and an outer C-style cast exactly when the operation is signed,
\* and is the bare binary operator otherwise (ICmp with EQ, NE or an unsigned
\* predicate included).
C16_WrappedIffSigned ==
  \A i \in DOMAIN InstrStmts :
    F[i].Opcode \in BinaryOpcodes =>
      IF IsSignedOperation(F[i]) THEN IsWrapped(InstrStmts[i])
      ELSE InstrStmts[i].E = "BinaryOperator"

\* C16 amended: the statement of a binary instruction is wrapped in
\* parentheses and an outer C-style cast to the translated IR result type
\* exactly when the opcode is SDiv, SRem, AShr or ICmp, whatever the
\* predicate of the ICmp; Add, Sub, Mul, And, Or, Xor, UDiv, URem, Shl and
\* LShr give the bare binary operator.
C16_WrappedIffSignedOrICmp ==
  \A i \in DOMAIN InstrStmts :
    F[i].Opcode \in BinaryOpcodes =>
      IF F[i].Opcode \in {"SDiv", "SRem", "AShr", "ICmp"}
      THEN /\ IsWrapped(InstrStmts[i])
           /\ InstrStmts[i].Ty = getQualType(F[i].Ty)
      ELSE InstrStmts[i].E = "BinaryOperator"

\* an add has been built bare and, after it, an unsigned comparison wrapped
C16_Witness ==
  \E i \in DOMAIN InstrStmts, j \in DOMAIN InstrStmts :
    /\ F[i].Opcode = "Add" /\ InstrStmts[i].E = "BinaryOperator"
    /\ F[j].Opcode = "ICmp" /\ F[j].Pred = "ICMP_ULT"
    /\ IsWrapped(InstrStmts[j])

\* C12: every instruction that has an entry in InstrStmts has a statement
\* there, never the null pointer (and never the result of a call that was
\* fatal).
C12_NonNull ==
  \A i \in DOMAIN InstrStmts : InstrStmts[i] # NullStmt /\ InstrStmts[i] # Aborted

\* the builder has gone through a function that has a branch and at least
\* one instruction that got a statement
C12_Witness ==
  /\ ~aborted
  /\ pc = Len(F) + 1
  /\ InstrStmts # << >>
  /\ \E i \in DOMAIN F : F[i].Opcode = "Br"

\* C13: an instruction the builder has gone through, that has a use and is
\* in ToSerialize, has one variable declaration in VarDecls, no other
\* instruction has the same declaration, and getExprForValue gives the
\* reference to that declaration even though the instruction has a statement
\* in InstrStmts; an instruction that is not a PHI and has no use, or is not
\* in ToSerialize, has no declaration in VarDecls.
C13_VarDecls ==
  \A i \in 1 .. pc - 1 :
    /\ (NumUses(i) > 0 /\ F[i].ToSerialize /\ F[i].Opcode # "Br") =>
         /\ i \in DOMAIN VarDecls
         /\ \A j \in DOMAIN VarDecls : VarDecls[j] = VarDecls[i] => j = i
         /\ getExprForValue(Instruction(i)) = DeclRefExpr(VarDecls[i], VarDecls[i].Ty)
    /\ (F[i].Opcode # "PHI" /\ ~(NumUses(i) > 0 /\ F[i].ToSerialize)) =>
         i \notin DOMAIN VarDecls

\* the builder has gone through a function in which one instruction has a
\* statement and a variable, and another has a statement and no variable
C13_Witness ==
  /\ ~aborted
  /\ pc = Len(F) + 1
  /\ \E i \in DOMAIN InstrStmts, j \in DOMAIN InstrStmts :
       /\ i \in DOMAIN VarDecls
       /\ InstrStmts[i] # DeclRefExpr(VarDecls[i], VarDecls[i].Ty)
       /\ j \notin DOMAIN VarDecls
       /\ NumUses(j) > 0

\* the values of the function: its instructions and their operands
ValuesOf ==
  {Instruction(i) : i \in DOMAIN F}
    \cup UNION {{F[i].Ops[k] : k \in DOMAIN F[i].Ops} : i \in DOMAIN F}

\* C14: two calls of getExprForValue on the same value, one before and one
\* after a step of the builder, that both return, return equal expressions.
C14_Idempotent ==
  [][\A v \in ValuesOf :
       (getExprForValue(v) # Aborted /\ getExprForValue(v)' # Aborted)
         => getExprForValue(v)' = getExprForValue(v)]_vars

\* the expressions directly under the node e
SubExprs(e) ==
  LET Field(f) == IF f \in DOMAIN e THEN {e[f]} ELSE {}
  IN  UNION {Field(f) : f \in {"Sub", "LHS", "RHS", "Cond", "Base", "Idx", "Callee", "RetExpr"}}
        \cup (IF "Args" \in DOMAIN e THEN {e.Args[k] : k \in DOMAIN e.Args} ELSE {})

\* the nodes of the tree e
RECURSIVE Nodes(_)
Nodes(e) == {e} \cup UNION {Nodes(c) : c \in SubExprs(e)}

\* what the builder emits: the statements it has recorded and the
\* expressions getExprForValue returns for the values of the function
Emitted ==
  {InstrStmts[i] : i \in DOMAIN InstrStmts}
    \cup ({getExprForValue(v) : v \in ValuesOf} \ {Aborted})

\* the kind that the classes of the source and destination types give a cast
KindOf(SrcTy, DstTy) ==
  CASE isIntegerType(SrcTy) /\ isIntegerType(DstTy) -> "CK_IntegralCast"
    [] isPointerType(SrcTy) /\ isIntegerType(DstTy) -> "CK_PointerToIntegral"
    [] isIntegerType(SrcTy) /\ isPointerType(DstTy) -> "CK_IntegralToPointer"
    [] isPointerType(SrcTy) /\ isPointerType(DstTy) -> "CK_BitCast"
    [] OTHER -> "none"

\* C17: every C-style cast in what the builder emits has the kind given by
\* the integer or pointer class of its operand's type and of its own type; a
\* BitCast has a pointer operand and a pointer type; no cast is made from or
\* to a type that is neither integer nor pointer.
C17_CastKinds ==
  \A e \in Emitted :
    \A c \in Nodes(e) :
      c.E = "CStyleCastExpr" => c.CK = KindOf(c.Sub.Ty, c.Ty)

TypedByTranslation ==
  (BinaryOpcodes \cup CastOpcodes \cup {"Load", "Select", "Call", "Unreachable"})

C19_Store ==
  \A i \in DOMAIN InstrStmts :
    F[i].Opcode = "Store" =>
      \A S \in {InstrStmts[i]} :
        \A LHS \in {Parenthesized(getExprForNewInstruction(Instruction(i)))} :
          \A RHS \in {getParenthesizedExprForValue(F[i].Ops[1])} :
            /\ S.E = "BinaryOperator"
            /\ S.Opc = "BO_Assign"
            /\ S.LHS = LHS
            /\ LHS.VK = "VK_LValue"
            /\ S.VK = "VK_RValue"
            /\ S.Ty = LHS.Ty
            /\ IF RHS.Ty = LHS.Ty
               THEN S.RHS = RHS
               ELSE /\ S.RHS.E = "CStyleCastExpr"
                    /\ S.RHS.Ty = LHS.Ty
                    /\ RHS \in Nodes(S.RHS.Sub)

\* the builder has gone through a function with a store whose two sides have
\* the same type and a store whose right side had to be cast
C19_Witness ==
  /\ ~aborted
  /\ pc = Len(F) + 1
  /\ \E i \in DOMAIN InstrStmts, j \in DOMAIN InstrStmts :
       /\ F[i].Opcode = "Store" /\ F[j].Opcode = "Store"
       /\ InstrStmts[i].RHS = getParenthesizedExprForValue(F[i].Ops[1])
       /\ InstrStmts[j].RHS.E = "CStyleCastExpr"
       /\ InstrStmts[j].RHS.Sub = getParenthesizedExprForValue(F[j].Ops[1])

\* the declaration FD has a sole parameter of type void
SoleVoid(FD) == Len(FD.Params) = 1 /\ FD.Params[1] = VoidTy

\* the argument Arg of a call is the operand's expression A as the parameter
\* type P takes it: A itself if its type is P, else A in parentheses under a
\* C-style cast to P
ArgumentFor(Arg, A, P) ==
  IF A.Ty = P THEN Arg = A
  ELSE /\ Arg.E = "CStyleCastExpr"
       /\ Arg.Ty = P
       /\ ParenExpr(A) \in Nodes(Arg.Sub)

Declarations ==
  {<<"var", i>> : i \in DOMAIN VarDecls} \cup {<<"array", i>> : i \in DOMAIN AllocaDecls}

DeclarationAt(d) == IF d[1] = "var" THEN VarDecls[d[2]] ELSE AllocaDecls[d[2]]

\* the basic blocks createAST has entered: the ones that start before pc, and
\* the one at pc when the run stopped there
VisitedBlocks ==
  {i \in DOMAIN F : F[i].NewBB /\ (i < pc \/ (i = pc /\ aborted))}

\* the declarations are named var_0 .. var_(NVar - 1), each name once; the
\* blocks entered are labelled bb_0 .. bb_(BBId - 1) in the order of the
\* traversal, one label a block
Numbered ==
  /\ \A d \in Declarations : DeclarationAt(d).Name[1] = "var_"
  /\ {DeclarationAt(d).Name[2] : d \in Declarations} = 0 .. NVar - 1
  /\ Cardinality(Declarations) = NVar
  /\ DOMAIN BBLabelDecls = VisitedBlocks
  /\ \A i \in DOMAIN BBLabelDecls :
       BBLabelDecls[i] = LabelDecl(Cardinality({j \in VisitedBlocks : j < i}))
  /\ BBId = Cardinality(VisitedBlocks)

\* C21: within one run of the builder the counter of var_K only grows and
\* every declaration, array of an alloca or variable of an instruction,
\* takes the next K from 0, so that no two declarations share a name, also
\* when one alloca gets an array and a variable; the labels bb_N are numbered
\* 0, 1, 2, ... without a gap in the order the blocks are visited, one label
\* per visited block.
C21_Names ==
  /\ []Numbered
  /\ [][/\ NVar' >= NVar
        /\ BBId' >= BBId
        /\ \A i \in DOMAIN VarDecls : i \in DOMAIN VarDecls' /\ VarDecls'[i] = VarDecls[i]
        /\ \A i \in DOMAIN AllocaDecls :
             i \in DOMAIN AllocaDecls' /\ AllocaDecls'[i] = AllocaDecls[i]]_vars

\* an alloca holds an array and a variable of two names, in a function of
\* two labelled blocks at least
C21_Witness ==
  /\ \E i \in DOMAIN AllocaDecls \cap DOMAIN VarDecls :
       AllocaDecls[i].Name # VarDecls[i].Name
  /\ BBId >= 2
  /\ NVar >= 2

\* the binary operator of the statement of the instruction at i, and its two
\* operands before getCastedBinaryOperands
OperatorAt(i) == Unwrapped(InstrStmts[i])

OperandBefore(i, k) == ToRValue(getParenthesizedExprForValue(F[i].Ops[k]))

Max(a, b) == IF a > b THEN a ELSE b

\* the operand E has a signed integer type of N bits
IsSignedOfWidth(E, N) ==
  /\ E.Ty.K = "Builtin"
  /\ E.Ty.B \in SignedKinds
  /\ getTypeSize(E.Ty) = N

\* C22: for SDiv, SRem, AShr and the ICmp of a signed predicate both
\* operands of the operator built have a signed integer type of the larger of
\* the two operands' widths, the operand of unsigned type by a cast to it; for
\* Add, Sub, Mul, And, Or, Xor, UDiv, URem, Shl, LShr and the ICmp of EQ, NE
\* or an unsigned predicate neither operand is cast.
C22_SignedOperands ==
  \A i \in DOMAIN InstrStmts :
    F[i].Opcode \in BinaryOpcodes =>
      \A Op \in {OperatorAt(i)} :
      \A L0 \in {OperandBefore(i, 1)}, R0 \in {OperandBefore(i, 2)} :
      \A Size \in {Max(getTypeSize(L0.Ty), getTypeSize(R0.Ty))} :
        IF IsSignedOperation(F[i])
        THEN /\ IsSignedOfWidth(Op.LHS, Size)
             /\ IsSignedOfWidth(Op.RHS, Size)
             /\ Op.LHS \in {L0, createCast(getIntTypeForBitwidth(Size), L0)}
             /\ Op.RHS \in {R0, createCast(getIntTypeForBitwidth(Size), R0)}
        ELSE Op.LHS = L0 /\ Op.RHS = R0

\* a signed division, or an arithmetic shift, of 128 bits by a constant has
\* been built: the constant is a literal of 64 bits, and both operands are
\* cast to the signed type of 128 bits
C22_Witness ==
  \E i \in DOMAIN InstrStmts :
    /\ F[i].Opcode \in {"SDiv", "AShr"}
    /\ F[i].Ops = <<ArgQ, ConstantInt(128, 1)>>
    /\ getTypeSize(OperandBefore(i, 2).Ty) = 64
    /\ OperatorAt(i).LHS.E = "CStyleCastExpr"
    /\ OperatorAt(i).RHS.E = "CStyleCastExpr"
    /\ OperatorAt(i).RHS.Ty = Builtin("Int128")

\* createAST has been through the instruction at i: it went past it, or
\* stopped on it
Done(i) == pc > i \/ (pc = i /\ aborted)

\* C23: a binary operator whose operands differ in width is accepted only if
\* it is a Shl, LShr or AShr or if one operand at least has a 128-bit integer
\* type; any other difference of widths, and any operand that is not of
\* integer type, is fatal, and the instruction gets no statement.
C23_Widths ==
  \A i \in DOMAIN F :
    (F[i].Opcode \in BinaryOpcodes /\ Done(i)) =>
      \A L0 \in {OperandBefore(i, 1)}, R0 \in {OperandBefore(i, 2)} :
        LET Integers == isIntegerType(L0.Ty) /\ isIntegerType(R0.Ty)
            SameWidth == getTypeSize(L0.Ty) = getTypeSize(R0.Ty)
            Tolerated == \/ F[i].Opcode \in {"Shl", "LShr", "AShr"}
                         \/ L0.Ty \in {Builtin("Int128"), Builtin("UInt128")}
                         \/ R0.Ty \in {Builtin("Int128"), Builtin("UInt128")}
        IN  /\ i \in DOMAIN InstrStmts <=> (Integers /\ (SameWidth \/ Tolerated))
            /\ i \notin DOMAIN InstrStmts => (aborted /\ pc = i)

\* the run stopped on a sum of a 32-bit and a 64-bit operand, no statement
\* recorded
C23_Witness ==
  /\ aborted
  /\ pc \in DOMAIN F
  /\ F[pc].Opcode = "Add"
  /\ F[pc].Ops = <<ArgX, ArgZ>>
  /\ pc \notin DOMAIN InstrStmts

\* the instruction at i is a shift whose right operand is narrower than its
\* left operand
NarrowShift(i) ==
  /\ F[i].Opcode \in {"Shl", "LShr", "AShr"}
  /\ getTypeSize(OperandBefore(i, 2).Ty) < getTypeSize(OperandBefore(i, 1).Ty)

\* C24 as stated: a Shl, LShr or AShr whose right operand is narrower than
\* its left operand is built with no cast on either operand.
C24_ShiftUncast ==
  \A i \in DOMAIN InstrStmts :
    NarrowShift(i) =>
      /\ OperatorAt(i).LHS = OperandBefore(i, 1)
      /\ OperatorAt(i).RHS = OperandBefore(i, 2)

\* the operand E as a signed operation of N bits takes it
AsSigned(E, N) ==
  IF isUnsignedIntegerType(E.Ty) THEN createCast(getIntTypeForBitwidth(N), E) ELSE E

\* C24 amended: a Shl or LShr whose right operand is narrower than its left
\* operand is built with no cast on either operand; an AShr of such operands
\* is built too, and each of its operands that has an unsigned type is cast
\* to the signed integer type of the left operand's width, an operand of
\* signed type being left as it is.
C24_ShiftCasts ==
  \A i \in DOMAIN F :
    (NarrowShift(i) /\ Done(i) /\ isIntegerType(OperandBefore(i, 1).Ty)
       /\ isIntegerType(OperandBefore(i, 2).Ty)) =>
      /\ i \in DOMAIN InstrStmts
      /\ \A Size \in {getTypeSize(OperandBefore(i, 1).Ty)} :
           IF F[i].Opcode = "AShr"
           THEN /\ OperatorAt(i).LHS = AsSigned(OperandBefore(i, 1), Size)
                /\ OperatorAt(i).RHS = AsSigned(OperandBefore(i, 2), Size)
           ELSE /\ OperatorAt(i).LHS = OperandBefore(i, 1)
                /\ OperatorAt(i).RHS = OperandBefore(i, 2)

\* an arithmetic shift of a 128-bit value by a constant, a literal of 64
\* bits, has been built with both operands cast to the signed type of 128
\* bits
C24_Witness ==
  \E i \in DOMAIN InstrStmts :
    /\ F[i].Opcode = "AShr"
    /\ F[i].Ops = <<ArgQ, ConstantInt(128, 1)>>
    /\ NarrowShift(i)
    /\ OperatorAt(i).LHS = createCast(Builtin("Int128"), OperandBefore(i, 1))
    /\ OperatorAt(i).RHS = createCast(Builtin("Int128"), OperandBefore(i, 2))

\* C25: the builder passes over every branch and every PHI: neither has an
\* entry in InstrStmts; every PHI that was visited has one variable in
\* VarDecls, be it in ToSerialize or not, used or not; a branch has no
\* variable.
C25_Skipped ==
  \A i \in DOMAIN F :
    /\ F[i].Opcode = "Br" => (i \notin DOMAIN InstrStmts /\ i \notin DOMAIN VarDecls)
    /\ F[i].Opcode = "PHI" =>
         /\ i \notin DOMAIN InstrStmts
         /\ i \in DOMAIN VarDecls <=> pc > i
         /\ i \in DOMAIN VarDecls =>
              Cardinality({j \in DOMAIN VarDecls : VarDecls[j].Name = VarDecls[i].Name}) = 1

\* the run is over a function of a branch and of a PHI that has no use and is
\* not in ToSerialize, and the PHI has its variable
C25_Witness ==
  /\ pc > Len(F)
  /\ \E i \in DOMAIN F : F[i].Opcode = "Br"
  /\ \E i \in DOMAIN VarDecls :
       F[i].Opcode = "PHI" /\ ~F[i].ToSerialize /\ NumUses(i) = 0

\* the opcodes buildStmt has no statement for: Br and Switch, not yet
\* implemented, and the unsupported ones
UnexpectedOpcodes ==
  {"Br", "Switch", "PHI", "FAdd", "GetElementPtr", "AtomicRMW", "VAArg", "ExtractValue",
   "Invoke"}

\* C26: buildStmt gives no statement for Br, Switch or an unsupported opcode
\* (floating point, atomic, exception, GEP, VAArg, PHI, aggregates): it is
\* fatal. createAST passes over branches and PHIs only, so a run that comes
\* to a switch or to an unsupported instruction stops there and records no
\* statement for it.
C26_Unexpected ==
  \A i \in DOMAIN F :
    F[i].Opcode \in UnexpectedOpcodes =>
      /\ buildStmt(i, AllocaDecls) = Aborted
      /\ i \notin DOMAIN InstrStmts
      /\ (F[i].Opcode \notin {"Br", "PHI"} /\ pc >= i) => pc = i
      /\ (F[i].Opcode \notin {"Br", "PHI"} /\ Done(i)) => aborted

\* the run stopped on a switch that comes after an instruction that got its
\* statement
C26_Witness ==
  /\ aborted
  /\ pc \in DOMAIN F
  /\ F[pc].Opcode = "Switch"
  /\ pc > 1
  /\ pc - 1 \in DOMAIN InstrStmts
  /\ pc \notin DOMAIN InstrStmts

\* the address of the load or store I, the type it accesses, and the lvalue
\* built for the instruction at i
AddressOf(I) == IF I.Opcode = "Load" THEN I.Ops[1] ELSE I.Ops[2]

AccessType(I) == IF I.Opcode = "Load" THEN getQualType(I.Ty) ELSE getQualType(TypeOf(I.Ops[1]))

LValueAt(i) == IF F[i].Opcode = "Load" THEN InstrStmts[i] ELSE InstrStmts[i].LHS

\* the expression E without the lvalue-to-rvalue conversion on top of it
SansLValueToRValue(E) ==
  IF E.E = "ImplicitCastExpr" /\ E.CK = "CK_LValueToRValue" THEN E.Sub ELSE E

\* the expression of the address of the load or store at i
AddressExprAt(i) == getParenthesizedExprForValue(AddressOf(F[i]))

\* the address of the load or store at i is an integer too wide for a pointer
TooWide(i) ==
  /\ AddressOf(F[i]).V # "GlobalVariable"
  /\ AddressExprAt(i) # Aborted
  /\ isIntegerType(AddressExprAt(i).Ty)
  /\ getTypeSize(AddressExprAt(i).Ty) > getTypeSize(Pointer(AccessType(F[i])))

\* C27: the lvalue of a load or store whose address is not a global is the
\* dereference of the address converted to a pointer to the accessed type:
\* an integer address narrower than a pointer is cast to uintptr_t and then
\* to the pointer type, one wider than a pointer is fatal, and the pointer of
\* an access through the null pointer constant is cast to pointer to volatile
\* of the accessed type; when the address is a global the lvalue is the bare
\* reference to the global, not cast and not dereferenced.
C27_Address ==
  \A i \in DOMAIN F :
    (F[i].Opcode \in {"Load", "Store"} /\ Done(i)) =>
      \A Addr \in {AddressOf(F[i])}, Access \in {AccessType(F[i])} :
        IF TooWide(i) THEN aborted /\ i \notin DOMAIN InstrStmts
        ELSE i \in DOMAIN InstrStmts =>
          \A LV \in {LValueAt(i)} :
            IF Addr.V = "GlobalVariable"
            THEN LV = DeclRefExpr(GlobalDecl(Addr), GlobalDecl(Addr).Ty)
            ELSE /\ LV.E = "UnaryOperator" /\ LV.Opc = "UO_Deref"
                 /\ LV.Ty = Access /\ LV.VK = "VK_LValue"
                 /\ \A Ptr \in {IF Addr.V = "ConstantPointerNull" THEN LV.Sub.Sub ELSE LV.Sub} :
                      /\ Ptr.Ty = Pointer(Access)
                      /\ Addr.V = "ConstantPointerNull" =>
                           LV.Sub = createCast(Pointer(addVolatile(Access)), Ptr)
                      /\ isIntegerType(AddressExprAt(i).Ty) =>
                           /\ Ptr.E = "CStyleCastExpr"
                           /\ IF getTypeSize(AddressExprAt(i).Ty) < getTypeSize(Ptr.Ty)
                              THEN /\ Ptr.Sub.E = "CStyleCastExpr"
                                   /\ Ptr.Sub.Ty = UIntPtrType
                                   /\ SansLValueToRValue(Ptr.Sub.Sub) = AddressExprAt(i)
                              ELSE SansLValueToRValue(Ptr.Sub) = AddressExprAt(i)

\* &ArrayDecl[0], of type char*
AddressOfFirst(ArrayDecl) ==
  UnaryOperator(ArraySubscriptExpr(ImplicitCastExpr(Pointer(CharTy), "CK_ArrayToPointerDecay",
                                                    DeclRefExpr(ArrayDecl, ArrayDecl.Ty)),
                                   IntegerLiteral(0, IntTy), CharTy),
                "UO_AddrOf", Pointer(CharTy), "VK_RValue")

\* C28: a static alloca gets one array of char of as many elements as the
\* alloca has bits, recorded in AllocaDecls, and its statement is the address
\* of the array's element 0, of type char*; a static alloca of 0 bits gets an
\* array of 0 elements and is no fault; an alloca that is not static, or one
\* of more bits than the largest unsigned of 32 bits, is fatal.
C28_Alloca ==
  \A i \in DOMAIN F :
    (F[i].Opcode = "Alloca" /\ Done(i)) =>
      IF F[i].Static /\ (F[i].SizeInBits[1] < 65536)
      THEN /\ pc > i
           /\ i \in DOMAIN AllocaDecls
           /\ AllocaDecls[i].D = "VarDecl"
           /\ AllocaDecls[i].Ty = ConstantArray(CharTy, F[i].SizeInBits)
           /\ Cardinality({j \in DOMAIN AllocaDecls : AllocaDecls[j].Name = AllocaDecls[i].Name}) = 1
           /\ i \in DOMAIN InstrStmts
           /\ InstrStmts[i] = AddressOfFirst(AllocaDecls[i])
      ELSE /\ aborted /\ pc = i
           /\ i \notin DOMAIN AllocaDecls
           /\ i \notin DOMAIN InstrStmts

\* a static alloca of 0 bits has been built: it has its array of 0 elements
\* and its statement
C28_Witness ==
  \E i \in DOMAIN AllocaDecls :
    /\ F[i].SizeInBits = <<0, 0>>
    /\ AllocaDecls[i].Ty.N = <<0, 0>>
    /\ i \in DOMAIN InstrStmts
    /\ ~aborted

\* the tags a client can pass to a link insertion
LinkTagArgs == {equalityTag, inheritanceTag} \cup {instanceTag(oe) : oe \in OEs}

\* C29: in every state reached by add_equality, add_inheritance, add_instance
\* and merge, an Equality link from a to b exists if and only if one from b
\* to a exists; hence the forward and the backward insertion of add_equality
\* return the same tag handle and the same New bit, and the New bit of a link
\* insertion between two distinct nodes is true exactly when the link was
\* absent from the source's successors and from the target's predecessors.
C29_EqualityInSync ==
  /\ \A a \in Layouts, b \in Layouts, h \in Handles :
       LinkTags[h].Kind = LK_Equality =>
         ((<<b, h>> \in Successors[a]) <=> (<<a, h>> \in Successors[b]))
  /\ \A Src \in NodeArgs, Tgt \in NodeArgs :
       addEqualityLink(Graph, Src, Tgt).InSync
  /\ \A Src \in Layouts, Tgt \in Layouts, Tag \in LinkTagArgs :
       Src # Tgt =>
         (addLink(Graph, Src, Tgt, Tag).New
            <=> /\ LinksOf(Graph, Src, Tgt, Tag) = {}
                /\ BackLinksOf(Graph, Src, Tgt, Tag) = {})

\* a merged node (two keys) joined to another node by an equality link in
\* both directions, next to a link of another kind
C29_Witness ==
  \E n \in Layouts, m \in Layouts, h \in Handles, g \in Handles :
    /\ n # m
    /\ Cardinality(LayoutToTypePtrsMap[n]) >= 2
    /\ LinkTags[h].Kind = LK_Equality
    /\ <<m, h>> \in Successors[n] /\ <<n, h>> \in Successors[m]
    /\ LinkTags[g].Kind # LK_Equality
    /\ \E x \in Layouts : \E e \in Successors[x] : e[2] = g

\* C30: every call expression the builder has made has an expression, not
\* null, in every argument slot, for every call it accepts, a call with
\* operands to a declaration of no parameter or of a sole void parameter
\* included.
C30_ArgumentsNonNull ==
  \A i \in DOMAIN InstrStmts :
    InstrStmts[i].E = "CallExpr" =>
      \A k \in DOMAIN InstrStmts[i].Args : InstrStmts[i].Args[k] # NullStmt

====
